---------------------------- MODULE Spec2Model ----------------------------
(***************************************************************************)
(* Distributed table shuffle of modules/graph/utils/table_shuffler_beta.h: *)
(* the columnar codec, the Schema Barrier (SchemaConsistent), the Shuffle  *)
(* Engine (ShuffleTableByOffsetLists) and the two public operations        *)
(* ShufflePropertyVertexTable / ShufflePropertyEdgeTable.                  *)
(***************************************************************************)
EXTENDS Integers, Sequences, FiniteSets, Bags, TLC

(***************************************************************************)
(* Bounds of the model.                                                    *)
(***************************************************************************)
MaxCols == 2
MaxRows == 2
MaxOffsets == 2
MaxBarrierWorkers == 3
MaxWorkers == 2
MaxBatches == 2
MaxTotalRows == 2
MaxKey == 2
MaxHw == 2
MaxEngineWorkers == 2
MaxEngineBatches == 2
MaxEngineHw == 6
MaxSplitHw == 5
MaxSplitBatches == 1
QueueCapacity == 1

MaxMapWorkers == 3

MaxMapBatches == 1

(***************************************************************************)
(* Generic helpers.                                                        *)
(***************************************************************************)
Byte == 0..255

RECURSIVE Concat(_)
Concat(ss) == IF ss = <<>> THEN <<>> ELSE Head(ss) \o Concat(Tail(ss))

SeqsUpTo(S, n) == UNION {[1..k -> S] : k \in 0..n}

Range(s) == {s[i] : i \in DOMAIN s}

(***************************************************************************)
(* grape::InArchive / OutArchive: a byte sequence written at the end and   *)
(* read from the front.  A read past the end is undefined in the code; the *)
(* model pads with zero bytes so that every reader is total.               *)
(***************************************************************************)
Zeros(n) == [i \in 1..n |-> 0]

GetBytes(arc, n) ==
    IF Len(arc) >= n THEN SubSeq(arc, 1, n) ELSE arc \o Zeros(n - Len(arc))

Skip(arc, n) == IF Len(arc) >= n THEN SubSeq(arc, n + 1, Len(arc)) ELSE <<>>

\* sizeof(size_t) = sizeof(int64_t) = 8: the width of every count on the wire
CountWidth == 8

\* arc << n for a 64-bit count n, little-endian
RECURSIVE PutCount(_, _)
PutCount(n, width) ==
    IF width = 0 THEN <<>> ELSE <<n % 256>> \o PutCount(n \div 256, width - 1)

\* arc >> n for a 64-bit count; the counts of the model fit in three bytes
ReadCount(bytes) ==
    LET b == GetBytes(bytes, CountWidth)
    IN  b[1] + 256 * b[2] + 65536 * b[3]

(***************************************************************************)
(* Column logical types of the codec's dispatch.                          *)
(***************************************************************************)
NumericTypes == {"f64", "f32", "i64", "i32", "u64", "u32"}

ListTypes == {"large_list<f64>", "large_list<f32>", "large_list<i64>",
              "large_list<i32>", "large_list<u64>", "large_list<u32>"}

SupportedTypes == NumericTypes \cup {"large_utf8", "null"} \cup ListTypes

\* sizeof(T) of the template parameter T
SizeOf(t) == IF t \in {"f64", "i64", "u64"} THEN 8 ELSE 4

\* the value type P of large_list<P>
ElemOf(t) ==
    CASE t = "large_list<f64>" -> "f64"
      [] t = "large_list<f32>" -> "f32"
      [] t = "large_list<i64>" -> "i64"
      [] t = "large_list<i32>" -> "i32"
      [] t = "large_list<u64>" -> "u64"
      [] OTHER -> "u32"

(***************************************************************************)
(* Serializer.  A numeric value is its sizeof(T) raw bytes, a string its   *)
(* bytes, a list the sequence of its numeric values, a null the empty      *)
(* sequence.  A column is the sequence of its values; offsets are 0-based. *)
(***************************************************************************)
\* serialize_selected_typed_items<T>(arc, array): every item of a value slice
serialize_all_typed_items(t, array) ==
    Concat([x \in 1..Len(array) |-> GetBytes(array[x], SizeOf(t))])

\* serialize_selected_typed_items<T>(arc, array, offset)
serialize_selected_typed_items(t, array, offset) ==
    Concat([j \in 1..Len(offset) |-> GetBytes(array[offset[j] + 1], SizeOf(t))])

\* operator<<(InArchive&, string_view): length, then the bytes
PutStringView(val) == PutCount(Len(val), CountWidth) \o val

serialize_string_items(array, offset) ==
    Concat([j \in 1..Len(offset) |-> PutStringView(array[offset[j] + 1])])

serialize_null_items(array, offset) == <<>>

serialize_list_items(t, array, offset) ==
    Concat([j \in 1..Len(offset) |->
              PutCount(Len(array[offset[j] + 1]), CountWidth)
                \o serialize_all_typed_items(t, array[offset[j] + 1])])

SerializeSelectedItems(type, array, offset) ==
    CASE type \in NumericTypes -> serialize_selected_typed_items(type, array, offset)
      [] type = "large_utf8" -> serialize_string_items(array, offset)
      [] type = "null" -> serialize_null_items(array, offset)
      [] OTHER -> serialize_list_items(ElemOf(type), array, offset)

\* a record batch is [schema, num_rows, columns]; a schema is a sequence of
\* column types
SerializeSelectedRows(record_batch, offset) ==
    PutCount(Len(offset), CountWidth)
      \o Concat([col_id \in 1..Len(record_batch.columns) |->
                   SerializeSelectedItems(record_batch.schema[col_id],
                                          record_batch.columns[col_id], offset)])

(***************************************************************************)
(* arrow::LargeListBuilder.  Append(true) opens a list slot at the current *)
(* length of the value builder; Finish closes the last slot at the final   *)
(* length.  Slot i of the array holds the values between the offsets i and *)
(* i + 1.                                                                  *)
(***************************************************************************)
\* the array when each slot is opened only after its values were appended:
\* offset i is the length of the value builder after item i
AppendAfterValues(lists) ==
    LET values  == Concat(lists)
        offsets == [i \in 1..Len(lists) |-> Len(Concat(SubSeq(lists, 1, i)))]
                     \o <<Len(values)>>
    IN  [i \in 1..Len(lists) |-> SubSeq(values, offsets[i] + 1, offsets[i + 1])]

(***************************************************************************)
(* Deserializer.  Each reader returns [out |-> the values appended to the  *)
(* builder, arc |-> the archive left].                                     *)
(***************************************************************************)
RECURSIVE deserialize_selected_typed_items(_, _, _)
deserialize_selected_typed_items(t, arc, num) ==
    IF num = 0 THEN [out |-> <<>>, arc |-> arc]
    ELSE LET rest == deserialize_selected_typed_items(t, Skip(arc, SizeOf(t)), num - 1)
         IN  [out |-> <<GetBytes(arc, SizeOf(t))>> \o rest.out, arc |-> rest.arc]

RECURSIVE deserialize_string_items(_, _)
deserialize_string_items(arc, num) ==
    IF num = 0 THEN [out |-> <<>>, arc |-> arc]
    ELSE LET length == ReadCount(arc)
             body   == Skip(arc, CountWidth)
             rest   == deserialize_string_items(Skip(body, length), num - 1)
         IN  [out |-> <<GetBytes(body, length)>> \o rest.out, arc |-> rest.arc]

deserialize_null_items(arc, num) ==
    [out |-> [i \in 1..num |-> <<>>], arc |-> arc]

\* the loop of deserialize_list_items: per item the length, then the values
RECURSIVE read_list_items(_, _, _)
read_list_items(t, arc, num) ==
    IF num = 0 THEN [out |-> <<>>, arc |-> arc]
    ELSE LET length == ReadCount(arc)
             items  == deserialize_selected_typed_items(t, Skip(arc, CountWidth), length)
             rest   == read_list_items(t, items.arc, num - 1)
         IN  [out |-> <<items.out>> \o rest.out, arc |-> rest.arc]

\* lines 300-311: the values of an item go to the value builder first, then
\* Append(true) opens a slot
deserialize_list_items(t, arc, num) ==
    LET got == read_list_items(t, arc, num)
    IN  [out |-> AppendAfterValues(got.out), arc |-> got.arc]

DeserializeSelectedItems(type, arc, num) ==
    CASE type \in NumericTypes -> deserialize_selected_typed_items(type, arc, num)
      [] type = "large_utf8" -> deserialize_string_items(arc, num)
      [] type = "null" -> deserialize_null_items(arc, num)
      [] OTHER -> deserialize_list_items(ElemOf(type), arc, num)

\* the columns of the builder, filled in schema order
RECURSIVE DeserializeColumns(_, _, _, _)
DeserializeColumns(schema, col_id, arc, row_num) ==
    IF col_id > Len(schema) THEN [out |-> <<>>, arc |-> arc]
    ELSE LET col  == DeserializeSelectedItems(schema[col_id], arc, row_num)
             rest == DeserializeColumns(schema, col_id + 1, col.arc, row_num)
         IN  [out |-> <<col.out>> \o rest.out, arc |-> rest.arc]

\* [batch_out |-> the flushed batch, arc |-> the bytes not consumed]
DeserializeSelectedRows(arc, schema) ==
    LET row_num == ReadCount(arc)
        cols    == DeserializeColumns(schema, 1, Skip(arc, CountWidth), row_num)
    IN  [batch_out |-> [schema |-> schema, num_rows |-> row_num,
                        columns |-> cols.out],
         arc |-> cols.arc]

(***************************************************************************)
(* Row Selector.                                                           *)
(***************************************************************************)
select_typed_items(t, array, offset) ==
    [j \in 1..Len(offset) |-> GetBytes(array[offset[j] + 1], SizeOf(t))]

select_string_items(array, offset) ==
    [j \in 1..Len(offset) |-> array[offset[j] + 1]]

select_null_items(array, offset) == [j \in 1..Len(offset) |-> <<>>]

\* lines 408-420: select_typed_items<T>(value_slice, value_builder) appends
\* the whole slice, then Append(true) opens a slot
select_list_items(t, array, offset) ==
    AppendAfterValues([j \in 1..Len(offset) |->
                         [x \in 1..Len(array[offset[j] + 1]) |->
                             GetBytes(array[offset[j] + 1][x], SizeOf(t))]])

SelectItems(type, array, offset) ==
    CASE type \in NumericTypes -> select_typed_items(type, array, offset)
      [] type = "large_utf8" -> select_string_items(array, offset)
      [] type = "null" -> select_null_items(array, offset)
      [] OTHER -> select_list_items(ElemOf(type), array, offset)

SelectRows(record_batch_in, offset) ==
    [schema   |-> record_batch_in.schema,
     num_rows |-> Len(offset),
     columns  |-> [col_id \in 1..Len(record_batch_in.columns) |->
                     SelectItems(record_batch_in.schema[col_id],
                                 record_batch_in.columns[col_id], offset)]]


(***************************************************************************)
(* State.                                                                  *)
(***************************************************************************)
VARIABLES
    codec,                \* the codec under test: [pc, record_batch, offset, arc, batch_out, rest, selected]
    comm_spec,            \* grape::CommSpec: [worker_num, local_num, w2f]
    hardware_concurrency, \* std::thread::hardware_concurrency()
    rendezvous,           \* TRUE: an MPI send returns only once it is received
    op,                   \* "vertex" or "edge": the public operation called
    table_in,             \* per worker: the input table [schema, batches]
    earlier_call,         \* per worker: <<>>, or what an earlier call of SchemaConsistent
                          \* gave: <<[ret, serialized_ok]>>
    pc,                   \* per worker: position of the calling thread
    result,               \* per worker: what the public operation returned
    table_out,            \* per worker: the returned table (a sequence of batches' rows)
    coll,                 \* per worker: the values it contributed to the collectives so far
    chan,                 \* chan[src][dst]: point-to-point messages in flight, in order
    sc,                   \* per worker: locals of SchemaConsistent
    record_batches,       \* per worker: record_batches / record_batches_out
    offset_lists,         \* per worker: offset_lists[batch][fid]
    scan,                 \* per worker: the scan threads [cur, idle, busy]
    eng,                  \* per worker: locals of ShuffleTableByOffsetLists
    msg_out,              \* per worker: BlockingQueue of (fid, archive)
    msg_in,               \* per worker: BlockingQueue of archives
    record_batches_in     \* per worker: the engine's output vector

inputVars == <<comm_spec, hardware_concurrency, rendezvous, op, table_in, earlier_call>>
scanVars == <<record_batches, offset_lists, scan>>
engineVars == <<eng, msg_out, msg_in, record_batches_in>>
vars == <<codec, inputVars, pc, result, table_out, coll, chan, sc, scanVars, engineVars>>

(***************************************************************************)
(* Input domains.  Arrays hold values only: the codec reads raw_values()   *)
(* and carries no validity bitmap (spec 4.1: no nulls outside the null     *)
(* type), so the batches of the model have no null entries in typed        *)
(* columns.                                                                *)
(***************************************************************************)
\* two raw values per numeric type: all zero bits, and a pattern with the
\* top bit set whose bytes are pairwise different
NumericValues(t) ==
    IF SizeOf(t) = 8
    THEN {Zeros(8), <<1, 2, 3, 4, 5, 6, 7, 128>>}
    ELSE {Zeros(4), <<9, 10, 11, 255>>}

ValuesOf(t) ==
    CASE t \in NumericTypes -> NumericValues(t)
      [] t = "large_utf8" -> {<<>>, <<97, 0>>}
      [] t = "null" -> {<<>>}
      [] OTHER -> {<<>>, <<Zeros(SizeOf(ElemOf(t))),
                          CHOOSE v \in NumericValues(ElemOf(t)) : v[1] # 0>>}

Schemas == SeqsUpTo(SupportedTypes, MaxCols)

\* the column tuples of a schema with n rows
RECURSIVE ColumnsOf(_, _)
ColumnsOf(schema, n) ==
    IF schema = <<>> THEN {<<>>}
    ELSE {<<c>> \o rest : c \in [1..n -> ValuesOf(Head(schema))],
                          rest \in ColumnsOf(Tail(schema), n)}

BatchesOf(schema) ==
    UNION {{[schema |-> schema, num_rows |-> n, columns |-> cols] :
              cols \in ColumnsOf(schema, n)} : n \in 0..MaxRows}

\* all offsets 0..n-1 in order
AllOffsets(n) == [j \in 1..n |-> j - 1]

\* any offset list: repeated and out-of-order indices, each in range
OffsetLists(n) == SeqsUpTo(0..(n - 1), MaxOffsets) \cup {AllOffsets(n)}

(***************************************************************************)
(* The codec driven on its own: serialize a selection, deserialize it,     *)
(* and select the same rows in process.                                    *)
(***************************************************************************)
CodecIdle(b) ==
    [pc |-> "idle", record_batch |-> b, offset |-> <<>>, arc |-> <<>>,
     batch_out |-> <<>>, rest |-> <<>>, selected |-> <<>>]

\* the part of the state the codec on its own does not use
NoWorkers ==
    /\ comm_spec = [worker_num |-> 0, local_num |-> 1, w2f |-> <<>>]
    /\ hardware_concurrency = 1
    /\ rendezvous = FALSE
    /\ op = "vertex"
    /\ table_in = <<>> /\ pc = <<>> /\ result = <<>> /\ table_out = <<>>
    /\ earlier_call = <<>>
    /\ coll = <<>> /\ chan = <<>> /\ sc = <<>>
    /\ record_batches = <<>> /\ offset_lists = <<>> /\ scan = <<>>
    /\ eng = <<>> /\ msg_out = <<>> /\ msg_in = <<>> /\ record_batches_in = <<>>

InitCodec ==
    /\ \E schema \in Schemas : \E b \in BatchesOf(schema) : codec = CodecIdle(b)
    /\ NoWorkers

CodecSerialize ==
    /\ codec.pc = "idle"
    /\ \E offset \in OffsetLists(codec.record_batch.num_rows) :
         codec' = [codec EXCEPT !.pc = "serialized", !.offset = offset,
                                !.arc = SerializeSelectedRows(codec.record_batch, offset)]
    /\ UNCHANGED <<inputVars, pc, result, table_out, coll, chan, sc, scanVars, engineVars>>

CodecDeserialize ==
    /\ codec.pc = "serialized"
    /\ LET got == DeserializeSelectedRows(codec.arc, codec.record_batch.schema)
       IN  codec' = [codec EXCEPT !.pc = "deserialized",
                                  !.batch_out = got.batch_out, !.rest = got.arc]
    /\ UNCHANGED <<inputVars, pc, result, table_out, coll, chan, sc, scanVars, engineVars>>

CodecSelect ==
    /\ codec.pc = "deserialized"
    /\ codec' = [codec EXCEPT !.pc = "selected",
                              !.selected = SelectRows(codec.record_batch, codec.offset)]
    /\ UNCHANGED <<inputVars, pc, result, table_out, coll, chan, sc, scanVars, engineVars>>

NextCodec == CodecSerialize \/ CodecDeserialize \/ CodecSelect

SpecCodec == InitCodec /\ [][NextCodec]_vars

(***************************************************************************)
(* grape::CommSpec and the MPI primitives.                                 *)
(***************************************************************************)
worker_num == comm_spec.worker_num

Workers == 0..(worker_num - 1)

\* CommSpec has one fragment per worker
fnum == comm_spec.worker_num

Fragments == 0..(fnum - 1)

WorkerToFrag(worker_id) == comm_spec.w2f[worker_id + 1]

FragToWorker(f) == CHOOSE w \in Workers : comm_spec.w2f[w + 1] = f

\* comm_spec.fid() of worker w
fid(w) == WorkerToFrag(w)

\* the bijective worker <-> fragment mappings of n workers
Mappings(n) ==
    {m \in [1..n -> 0..(n - 1)] : \A i, j \in 1..n : m[i] = m[j] => i = j}

\* CommSpec's own mapping: fragment i belongs to worker i
IdentityMapping(n) == [i \in 1..n |-> i - 1]

\* A collective (MPI_Allreduce, MPI_Barrier) is entered by appending the
\* local contribution; it returns once every worker has entered as many.
EnterCollective(w, value) == [coll EXCEPT ![w] = Append(@, value)]

Arrived(w) == \A v \in Workers : Len(coll[v]) >= Len(coll[w])

RECURSIVE SumUpTo(_, _)
SumUpTo(f, n) == IF n < 0 THEN 0 ELSE f[n] + SumUpTo(f, n - 1)

\* the MPI_SUM over the contributions to the collective w is in
AllreduceSum(w) ==
    SumUpTo([v \in Workers |-> coll[v][Len(coll[w])]], worker_num - 1)

\* MPI_Send to dst: the message joins the ordered channel src -> dst
MpiSend(src, dst, msg) == [chan EXCEPT ![src][dst] = Append(@, msg)]

\* a synchronous send has not returned while its message is unreceived
SendBlocked(w) == rendezvous /\ \E d \in Workers : chan[w][d] # <<>>

MpiRecv(src, dst) == [chan EXCEPT ![src][dst] = Tail(@)]

(***************************************************************************)
(* arrow::ipc::SerializeSchema / ReadSchema: the type tags of the fields,  *)
(* preceded by the field count.                                            *)
(***************************************************************************)
TypeList == <<"f64", "f32", "i64", "i32", "u64", "u32", "large_utf8", "null",
              "large_list<f64>", "large_list<f32>", "large_list<i64>",
              "large_list<i32>", "large_list<u64>", "large_list<u32>">>

TypeCode(t) == CHOOSE i \in 1..Len(TypeList) : TypeList[i] = t

SerializeSchema(schema) ==
    <<Len(schema)>> \o [i \in 1..Len(schema) |-> TypeCode(schema[i])]

ReadSchema(buffer) == [i \in 1..buffer[1] |-> TypeList[buffer[i + 1]]]

SchemaEquals(got_schema, schema) == got_schema = schema

\* a variant that keeps the last comparison only: consistent = ...
AndEqualsLastOnly(consistent, got_schema, schema) ==
    SchemaEquals(got_schema, schema)

\* line 155: consistent &= got_schema->Equals(schema)
AndEquals(consistent, got_schema, schema) ==
    consistent /\ SchemaEquals(got_schema, schema)

(***************************************************************************)
(* SchemaConsistent.                                                       *)
(***************************************************************************)
ScIdle ==
    [serialized_ok |-> TRUE, buffer |-> <<>>, send_i |-> 0, recv_i |-> 0,
     consistent |-> TRUE, ret |-> "none", allreduces |-> 0, barriers |-> 0]

\* whether SerializeSchema returns OK: it may fail, and of one schema it
\* gives what it gave before
SerializeStatuses(w) ==
    IF earlier_call[w] = <<>> THEN BOOLEAN ELSE {earlier_call[w][1].serialized_ok}

\* lines 96-125: serialize the schema, enter the all-reduce of the failure flag
ScSerialize(w) ==
    /\ pc[w] = "sc_enter"
    /\ \E ok \in SerializeStatuses(w) :
         /\ sc' = [sc EXCEPT ![w] =
                     [ScIdle EXCEPT !.serialized_ok = ok,
                                    !.buffer = IF ok THEN SerializeSchema(table_in[w].schema)
                                               ELSE <<>>,
                                    !.allreduces = 1]]
         /\ coll' = EnterCollective(w, IF ok THEN 0 ELSE 1)
    /\ pc' = [pc EXCEPT ![w] = "sc_allreduce"]
    /\ UNCHANGED <<codec, inputVars, result, table_out, chan, scanVars, engineVars>>

\* a variant that looks at the local flag only, as if it were not reduced
ScFailedLocally(w) == ~sc[w].serialized_ok

\* the flag this worker and all workers agree on after the all-reduce
ScFailed(w) == ~sc[w].serialized_ok \/ AllreduceSum(w) # 0

\* lines 117-140: the all-reduce returns; an error return, or the two threads start
ScAllreduce(w) ==
    /\ pc[w] = "sc_allreduce"
    /\ Arrived(w)
    /\ IF ScFailed(w)
       THEN /\ sc' = [sc EXCEPT ![w].ret = "arrow-error"]
            /\ pc' = [pc EXCEPT ![w] = "sc_returned"]
       ELSE /\ sc' = [sc EXCEPT ![w].send_i = 1, ![w].recv_i = 1,
                                ![w].consistent = TRUE]
            /\ pc' = [pc EXCEPT ![w] = "sc_exchange"]
    /\ UNCHANGED <<codec, inputVars, result, table_out, coll, chan, scanVars, engineVars>>

\* a variant of the send thread that walks the ring the other way
ScSendBackwards(w) ==
    /\ pc[w] = "sc_exchange"
    /\ sc[w].send_i < worker_num
    /\ ~SendBlocked(w)
    /\ LET dst_worker_id == (w + worker_num - sc[w].send_i) % worker_num
       IN  chan' = MpiSend(w, dst_worker_id,
                           [kind |-> "schema", payload |-> sc[w].buffer])
    /\ sc' = [sc EXCEPT ![w].send_i = @ + 1]
    /\ UNCHANGED <<codec, inputVars, pc, result, table_out, coll, scanVars, engineVars>>

\* lines 134-139: one iteration of send_thread
ScSend(w) ==
    /\ pc[w] = "sc_exchange"
    /\ sc[w].send_i < worker_num
    /\ ~SendBlocked(w)
    /\ LET dst_worker_id == (w + sc[w].send_i) % worker_num
       IN  chan' = MpiSend(w, dst_worker_id,
                           [kind |-> "schema", payload |-> sc[w].buffer])
    /\ sc' = [sc EXCEPT ![w].send_i = @ + 1]
    /\ UNCHANGED <<codec, inputVars, pc, result, table_out, coll, scanVars, engineVars>>

\* lines 141-157: one iteration of recv_thread
ScRecv(w) ==
    /\ pc[w] = "sc_exchange"
    /\ sc[w].recv_i < worker_num
    /\ LET src_worker_id == (w + worker_num - sc[w].recv_i) % worker_num
       IN  /\ chan[src_worker_id][w] # <<>>
           /\ LET got_schema == ReadSchema(Head(chan[src_worker_id][w]).payload)
              IN  sc' = [sc EXCEPT ![w].recv_i = @ + 1,
                                   ![w].consistent =
                                       AndEquals(@, got_schema, table_in[w].schema)]
           /\ chan' = MpiRecv(src_worker_id, w)
    /\ UNCHANGED <<codec, inputVars, pc, result, table_out, coll, scanVars, engineVars>>

\* a variant of the join that waits for the send thread only
ScJoinSendOnly(w) ==
    /\ pc[w] = "sc_exchange"
    /\ sc[w].send_i = worker_num
    /\ ~SendBlocked(w)
    /\ coll' = EnterCollective(w, 0)
    /\ sc' = [sc EXCEPT ![w].barriers = @ + 1]
    /\ pc' = [pc EXCEPT ![w] = "sc_barrier"]
    /\ UNCHANGED <<codec, inputVars, result, table_out, chan, scanVars, engineVars>>

\* lines 159-162: both threads joined, enter the barrier
ScJoin(w) ==
    /\ pc[w] = "sc_exchange"
    /\ sc[w].send_i = worker_num
    /\ ~SendBlocked(w)
    /\ sc[w].recv_i = worker_num
    /\ coll' = EnterCollective(w, 0)
    /\ sc' = [sc EXCEPT ![w].barriers = @ + 1]
    /\ pc' = [pc EXCEPT ![w] = "sc_barrier"]
    /\ UNCHANGED <<codec, inputVars, result, table_out, chan, scanVars, engineVars>>

\* lines 162-169: the barrier returns; the local verdict is returned
ScReturn(w) ==
    /\ pc[w] = "sc_barrier"
    /\ Arrived(w)
    /\ sc' = [sc EXCEPT ![w].ret = IF sc[w].consistent THEN "ok"
                                   ELSE "invalid-operation"]
    /\ pc' = [pc EXCEPT ![w] = "sc_returned"]
    /\ UNCHANGED <<codec, inputVars, result, table_out, coll, chan, scanVars, engineVars>>

(***************************************************************************)
(* The Schema Barrier on its own: every worker calls SchemaConsistent.     *)
(***************************************************************************)
\* the schemas a worker may present
SchemaChoices == {<<"i64", "large_utf8">>, <<"i32", "large_utf8">>}

\* the state of n workers before any of them has acted
WorkersIdle(n) ==
    /\ codec = CodecIdle([schema |-> <<>>, num_rows |-> 0, columns |-> <<>>])
    /\ earlier_call = [w \in 0..(n - 1) |-> <<>>]
    /\ result = [w \in 0..(n - 1) |-> "none"]
    /\ table_out = [w \in 0..(n - 1) |-> <<>>]
    /\ coll = [w \in 0..(n - 1) |-> <<>>]
    /\ chan = [s \in 0..(n - 1) |-> [d \in 0..(n - 1) |-> <<>>]]
    /\ sc = [w \in 0..(n - 1) |-> ScIdle]

InitBarrier ==
    \E n \in 1..MaxBarrierWorkers :
        /\ comm_spec = [worker_num |-> n, local_num |-> 1, w2f |-> IdentityMapping(n)]
        /\ hardware_concurrency = 1
        /\ rendezvous \in BOOLEAN
        /\ op = "vertex"
        /\ table_in \in [0..(n - 1) -> {[schema |-> s, batches |-> <<>>] : s \in SchemaChoices}]
        /\ pc = [w \in 0..(n - 1) |-> "sc_enter"]
        /\ WorkersIdle(n)
        /\ record_batches = [w \in 0..(n - 1) |-> <<>>]
        /\ offset_lists = [w \in 0..(n - 1) |-> <<>>]
        /\ scan = [w \in 0..(n - 1) |-> <<>>]
        /\ eng = [w \in 0..(n - 1) |-> <<>>]
        /\ msg_out = [w \in 0..(n - 1) |-> <<>>]
        /\ msg_in = [w \in 0..(n - 1) |-> <<>>]
        /\ record_batches_in = [w \in 0..(n - 1) |-> <<>>]

NextBarrier ==
    \/ \E w \in Workers : ScSerialize(w)
    \/ \E w \in Workers : ScAllreduce(w)
    \/ \E w \in Workers : ScSend(w)
    \/ \E w \in Workers : ScRecv(w)
    \/ \E w \in Workers : ScJoin(w)
    \/ \E w \in Workers : ScReturn(w)

SpecBarrier == InitBarrier /\ [][NextBarrier]_vars

(***************************************************************************)
(* Two calls in a row: a worker whose call has returned calls              *)
(* SchemaConsistent once more, with the same table.                        *)
(***************************************************************************)
ScCallAgain(w) ==
    /\ pc[w] = "sc_returned"
    /\ earlier_call[w] = <<>>
    /\ earlier_call' = [earlier_call EXCEPT ![w] =
                          <<[ret |-> sc[w].ret, serialized_ok |-> sc[w].serialized_ok]>>]
    /\ pc' = [pc EXCEPT ![w] = "sc_enter"]
    /\ UNCHANGED <<codec, comm_spec, hardware_concurrency, rendezvous, op, table_in,
                   result, table_out, coll, chan, sc, scanVars, engineVars>>

NextBarrierTwice ==
    \/ \E w \in Workers : ScSerialize(w)
    \/ \E w \in Workers : ScAllreduce(w)
    \/ \E w \in Workers : ScSend(w)
    \/ \E w \in Workers : ScRecv(w)
    \/ \E w \in Workers : ScJoin(w)
    \/ \E w \in Workers : ScReturn(w)
    \/ \E w \in Workers : ScCallAgain(w)

SpecBarrierTwice == InitBarrier /\ [][NextBarrierTwice]_vars

(***************************************************************************)
(* Thread budget (lines 484-489, 635-637, 729-731).  C++ integer division  *)
(* truncates toward zero.                                                  *)
(***************************************************************************)
Max(a, b) == IF a >= b THEN a ELSE b

TruncDiv(a, b) == IF a >= 0 THEN a \div b ELSE -((-a) \div b)

thread_num ==
    (hardware_concurrency + comm_spec.local_num - 1) \div comm_spec.local_num

\* a variant that gives a pool half of the spare threads
half_of_spare_threads == Max(1, TruncDiv(thread_num - 2, 2))

deserialize_thread_num == Max(1, TruncDiv(thread_num - 2, 2))

serialize_thread_num == Max(1, thread_num - 2 - deserialize_thread_num)

(***************************************************************************)
(* grape::BlockingQueue: [queue, producer_num].  The code never calls      *)
(* SetLimit, so Put never finds the queue full.                            *)
(***************************************************************************)
NewQueue(producers) == [queue |-> <<>>, producer_num |-> producers]

Put(q, item) == [q EXCEPT !.queue = Append(@, item)]

\* a variant that forgets the announcement
KeepProducerNum(q) == q

DecProducerNum(q) == [q EXCEPT !.producer_num = @ - 1]

\* Get returns true with the front item
CanGet(q) == q.queue # <<>>

\* a variant that does not wait for the producers
DrainedWhenEmpty(q) == q.queue = <<>>

\* Get returns false: empty and no producer left
Drained(q) == q.queue = <<>> /\ q.producer_num = 0

Pop(q) == [q EXCEPT !.queue = Tail(@)]

(***************************************************************************)
(* The routers' row scans.  A key or a vertex id is an 8-byte little-endian *)
(* value; the partitioner hashes a key to key mod fnum, the IdParser reads  *)
(* the fragment from the top byte of a vertex id.                           *)
(***************************************************************************)
GetPartitionId(oid) == oid[1] % fnum

GetFid(gid) == gid[8]

\* offset_list.resize(fnum): keeps what is there, pads with empty lists
Resize(offset_list, n) ==
    [f \in 1..n |-> IF f <= Len(offset_list) THEN offset_list[f] ELSE <<>>]

\* a variant that puts the row index in front
push_front(offset_list, f, row_id) ==
    [offset_list EXCEPT ![f + 1] = <<row_id>> \o @]

push_back(offset_list, f, row_id) ==
    [offset_list EXCEPT ![f + 1] = Append(@, row_id)]

\* lines 751-755: rows row_id.. of the batch, by the key in column 0
RECURSIVE ScanVertexRows(_, _, _)
ScanVertexRows(cur_batch, row_id, offset_list) ==
    IF row_id >= cur_batch.num_rows THEN offset_list
    ELSE ScanVertexRows(cur_batch, row_id + 1,
             push_back(offset_list, GetPartitionId(cur_batch.columns[1][row_id + 1]),
                       row_id))

src_col_id == 0
dst_col_id == 1

\* a variant without the test src_fid != dst_fid
RECURSIVE ScanEdgeRowsBothEnds(_, _, _)
ScanEdgeRowsBothEnds(cur_batch, row_id, offset_list) ==
    IF row_id >= cur_batch.num_rows THEN offset_list
    ELSE LET src_fid == GetFid(cur_batch.columns[src_col_id + 1][row_id + 1])
             dst_fid == GetFid(cur_batch.columns[dst_col_id + 1][row_id + 1])
         IN  ScanEdgeRowsBothEnds(cur_batch, row_id + 1,
                 push_back(push_back(offset_list, src_fid, row_id), dst_fid, row_id))

\* a variant that routes a row to the fragment of its source only
RECURSIVE ScanEdgeRowsSourceOnly(_, _, _)
ScanEdgeRowsSourceOnly(cur_batch, row_id, offset_list) ==
    IF row_id >= cur_batch.num_rows THEN offset_list
    ELSE LET src_fid == GetFid(cur_batch.columns[src_col_id + 1][row_id + 1])
         IN  ScanEdgeRowsSourceOnly(cur_batch, row_id + 1,
                 push_back(offset_list, src_fid, row_id))

\* lines 665-676: rows row_id.. of the batch, by both endpoints
RECURSIVE ScanEdgeRows(_, _, _)
ScanEdgeRows(cur_batch, row_id, offset_list) ==
    IF row_id >= cur_batch.num_rows THEN offset_list
    ELSE LET src_fid == GetFid(cur_batch.columns[src_col_id + 1][row_id + 1])
             dst_fid == GetFid(cur_batch.columns[dst_col_id + 1][row_id + 1])
             with_src == push_back(offset_list, src_fid, row_id)
         IN  ScanEdgeRows(cur_batch, row_id + 1,
                 IF src_fid # dst_fid THEN push_back(with_src, dst_fid, row_id)
                 ELSE with_src)

ScanRows(cur_batch, offset_list) ==
    IF op = "vertex" THEN ScanVertexRows(cur_batch, 0, Resize(offset_list, fnum))
    ELSE ScanEdgeRows(cur_batch, 0, Resize(offset_list, fnum))

(***************************************************************************)
(* The public operations, up to the call of the Shuffle Engine.            *)
(***************************************************************************)
\* an index past the end of a vector: the element pointer of an empty
\* std::vector is null, the access ends the process
Crash(w) ==
    /\ pc' = [pc EXCEPT ![w] = "crashed"]
    /\ result' = [result EXCEPT ![w] = "crashed"]

\* a variant that returns early on an arrow-error only
BarrierFailedWithArrowError(w) == sc[w].ret = "arrow-error"

\* lines 626 and 721: BOOST_LEAF_CHECK returns the barrier's error, if any
BarrierFailed(w) == sc[w].ret # "ok"

\* lines 626-639 and 721-733: BOOST_LEAF_CHECK of the Schema Barrier, then
\* TableToRecordBatches, then the scan threads start
Convert(w) ==
    /\ pc[w] = "sc_returned"
    /\ IF BarrierFailed(w)
       THEN /\ result' = [result EXCEPT ![w] = sc[w].ret]
            /\ pc' = [pc EXCEPT ![w] = "done"]
            /\ UNCHANGED scanVars
       ELSE \E ok \in BOOLEAN :
              IF ~ok
              THEN /\ result' = [result EXCEPT ![w] = "error"]
                   /\ pc' = [pc EXCEPT ![w] = "done"]
                   /\ UNCHANGED scanVars
              ELSE /\ record_batches' = [record_batches EXCEPT ![w] = table_in[w].batches]
                   /\ offset_lists' = [offset_lists EXCEPT ![w] =
                                         [i \in 1..Len(table_in[w].batches) |-> <<>>]]
                   /\ scan' = [scan EXCEPT ![w] =
                                 [cur |-> 0, idle |-> thread_num, busy |-> EmptyBag]]
                   /\ pc' = [pc EXCEPT ![w] = "scan"]
                   /\ UNCHANGED result
    /\ UNCHANGED <<codec, inputVars, table_out, coll, chan, sc, engineVars>>

\* cur.fetch_add(1) of a scan thread at the head of its loop
ScanClaim(w) ==
    /\ pc[w] = "scan"
    /\ scan[w].idle > 0
    /\ LET got == scan[w].cur
       IN  scan' = [scan EXCEPT
                      ![w].cur = @ + 1,
                      ![w].idle = @ - 1,
                      ![w].busy = IF got >= Len(record_batches[w]) THEN @
                                  ELSE @ (+) SetToBag({got})]
    /\ UNCHANGED <<codec, inputVars, pc, result, table_out, coll, chan, sc,
                   record_batches, offset_lists, engineVars>>

\* a scan thread fills the offset lists of the batch it claimed
ScanBatch(w) ==
    /\ pc[w] = "scan"
    /\ \E got \in BagToSet(scan[w].busy) :
         /\ offset_lists' = [offset_lists EXCEPT ![w][got + 1] =
                               ScanRows(record_batches[w][got + 1], @)]
         /\ scan' = [scan EXCEPT ![w].busy = @ (-) SetToBag({got}),
                                 ![w].idle = @ + 1]
    /\ UNCHANGED <<codec, inputVars, pc, result, table_out, coll, chan, sc,
                   record_batches, engineVars>>

\* lines 680-687 and 759-766: all scan threads joined, the engine is called
ScanJoin(w) ==
    /\ pc[w] = "scan"
    /\ scan[w].idle = 0
    /\ scan[w].busy = EmptyBag
    /\ pc' = [pc EXCEPT ![w] = "eng_enter"]
    /\ UNCHANGED <<codec, inputVars, result, table_out, coll, chan, sc, scanVars,
                   engineVars>>

(***************************************************************************)
(* ShuffleTableByOffsetLists.                                              *)
(***************************************************************************)
NullBatch == [schema |-> <<>>, num_rows |-> -1, columns |-> <<>>]

EngIdle ==
    [record_batches_to_recv |-> 0, cur_batch_out |-> 0, cur_batch_in |-> 0,
     ser_idle |-> 0, ser_busy |-> EmptyBag, de_idle |-> 0, de_busy |-> EmptyBag,
     send_thread |-> "off", recv_thread |-> "off", remaining_msg_num |-> 0]

\* lines 480-502: queues and producer counts, enter the batch-count all-reduce
EngEnter(w) ==
    /\ pc[w] = "eng_enter"
    /\ eng' = [eng EXCEPT ![w] = EngIdle]
    /\ msg_out' = [msg_out EXCEPT ![w] = NewQueue(serialize_thread_num)]
    /\ msg_in' = [msg_in EXCEPT ![w] = NewQueue(1)]
    /\ record_batches_in' = [record_batches_in EXCEPT ![w] = <<>>]
    /\ coll' = EnterCollective(w, Len(record_batches[w]))
    /\ pc' = [pc EXCEPT ![w] = "eng_allreduce"]
    /\ UNCHANGED <<codec, inputVars, result, table_out, chan, sc, scanVars>>

\* lines 503-550: the all-reduce returns; send thread, receive thread and
\* serializer threads start
EngAllreduce(w) ==
    /\ pc[w] = "eng_allreduce"
    /\ Arrived(w)
    /\ LET record_batches_to_recv == AllreduceSum(w) - Len(record_batches[w])
       IN  eng' = [eng EXCEPT ![w].record_batches_to_recv = record_batches_to_recv,
                              ![w].remaining_msg_num = record_batches_to_recv,
                              ![w].send_thread = "run",
                              ![w].recv_thread = "run",
                              ![w].ser_idle = serialize_thread_num]
    /\ pc' = [pc EXCEPT ![w] = "eng_resize"]
    /\ UNCHANGED <<codec, inputVars, result, table_out, coll, chan, sc, scanVars,
                   msg_out, msg_in, record_batches_in>>

\* lines 552-562: the output vector is pre-sized, the deserializers start
EngResize(w) ==
    /\ pc[w] = "eng_resize"
    /\ record_batches_in' = [record_batches_in EXCEPT ![w] =
                               [i \in 1..eng[w].record_batches_to_recv |-> NullBatch]]
    /\ eng' = [eng EXCEPT ![w].de_idle = deserialize_thread_num]
    /\ pc' = [pc EXCEPT ![w] = "eng_join"]
    /\ UNCHANGED <<codec, inputVars, result, table_out, coll, chan, sc, scanVars,
                   msg_out, msg_in>>

PipelineRunning(w) == pc[w] \in {"eng_resize", "eng_join"}

\* lines 532-535 and 548: cur_batch_out.fetch_add(1) of a serializer at the
\* head of its loop; past the last batch it leaves and is no producer any more
SerClaim(w) ==
    /\ PipelineRunning(w)
    /\ eng[w].ser_idle > 0
    /\ LET got_batch == eng[w].cur_batch_out
       IN  IF got_batch >= Len(record_batches[w])
           THEN /\ eng' = [eng EXCEPT ![w].cur_batch_out = @ + 1,
                                      ![w].ser_idle = @ - 1]
                /\ msg_out' = [msg_out EXCEPT ![w] = DecProducerNum(@)]
           ELSE /\ eng' = [eng EXCEPT
                             ![w].cur_batch_out = @ + 1,
                             ![w].ser_idle = IF worker_num = 1 THEN @ ELSE @ - 1,
                             ![w].ser_busy =
                                 IF worker_num = 1 THEN @
                                 ELSE @ (+) SetToBag({[got_batch |-> got_batch, i |-> 1]})]
                /\ UNCHANGED msg_out
    /\ UNCHANGED <<codec, inputVars, pc, result, table_out, coll, chan, sc, scanVars,
                   msg_in, record_batches_in>>

\* a variant whose loop over the workers starts at the worker itself
SerItemFromSelf(w, got_batch, i) ==
    LET dst_worker_id == (w + i - 1) % worker_num
        dst_fid       == WorkerToFrag(dst_worker_id)
    IN  [first  |-> dst_fid,
         second |-> SerializeSelectedRows(record_batches[w][got_batch + 1],
                                          offset_lists[w][got_batch + 1][dst_fid + 1])]

\* the (fid, archive) item a serializer builds for its i-th remote worker
SerItem(w, got_batch, i) ==
    LET dst_worker_id == (w + i) % worker_num
        dst_fid       == WorkerToFrag(dst_worker_id)
    IN  [first  |-> dst_fid,
         second |-> SerializeSelectedRows(record_batches[w][got_batch + 1],
                                          offset_lists[w][got_batch + 1][dst_fid + 1])]

\* a variant of the serializer that puts an item only if it selects rows
SerPutRowsOnly(w) ==
    /\ PipelineRunning(w)
    /\ \E t \in BagToSet(eng[w].ser_busy) :
         LET dst_fid == WorkerToFrag((w + t.i) % worker_num)
         IN  /\ dst_fid < Len(offset_lists[w][t.got_batch + 1])
             /\ msg_out' = [msg_out EXCEPT ![w] =
                              IF offset_lists[w][t.got_batch + 1][dst_fid + 1] = <<>>
                              THEN @ ELSE Put(@, SerItem(w, t.got_batch, t.i))]
             /\ eng' = [eng EXCEPT
                          ![w].ser_busy =
                              IF t.i + 1 = worker_num THEN @ (-) SetToBag({t})
                              ELSE (@ (-) SetToBag({t}))
                                     (+) SetToBag({[t EXCEPT !.i = @ + 1]}),
                          ![w].ser_idle = IF t.i + 1 = worker_num THEN @ + 1 ELSE @]
             /\ UNCHANGED <<pc, result>>
    /\ UNCHANGED <<codec, inputVars, table_out, coll, chan, sc, scanVars,
                   msg_in, record_batches_in>>

\* lines 539-546: one iteration of a serializer's loop over the remote workers
SerPut(w) ==
    /\ PipelineRunning(w)
    /\ \E t \in BagToSet(eng[w].ser_busy) :
         IF WorkerToFrag((w + t.i) % worker_num) >= Len(offset_lists[w][t.got_batch + 1])
         THEN /\ Crash(w)
              /\ UNCHANGED <<eng, msg_out>>
         ELSE /\ msg_out' = [msg_out EXCEPT ![w] = Put(@, SerItem(w, t.got_batch, t.i))]
              /\ eng' = [eng EXCEPT
                           ![w].ser_busy =
                               IF t.i + 1 = worker_num THEN @ (-) SetToBag({t})
                               ELSE (@ (-) SetToBag({t}))
                                      (+) SetToBag({[t EXCEPT !.i = @ + 1]}),
                           ![w].ser_idle = IF t.i + 1 = worker_num THEN @ + 1 ELSE @]
              /\ UNCHANGED <<pc, result>>
    /\ UNCHANGED <<codec, inputVars, table_out, coll, chan, sc, scanVars,
                   msg_in, record_batches_in>>

\* a variant of the send thread that takes the fragment id for the worker id
SendItemToFragmentId(w) ==
    /\ PipelineRunning(w)
    /\ eng[w].send_thread = "run"
    /\ CanGet(msg_out[w])
    /\ ~SendBlocked(w)
    /\ LET item == Head(msg_out[w].queue)
           dst_worker_id == item.first
       IN  chan' = MpiSend(w, dst_worker_id,
                           [kind |-> "rows", payload |-> item.second])
    /\ msg_out' = [msg_out EXCEPT ![w] = Pop(@)]
    /\ UNCHANGED <<codec, inputVars, pc, result, table_out, coll, sc, scanVars,
                   eng, msg_in, record_batches_in>>

\* lines 508-512: the send thread takes an item and sends it
SendItem(w) ==
    /\ PipelineRunning(w)
    /\ eng[w].send_thread = "run"
    /\ CanGet(msg_out[w])
    /\ ~SendBlocked(w)
    /\ LET item == Head(msg_out[w].queue)
           dst_worker_id == FragToWorker(item.first)
       IN  chan' = MpiSend(w, dst_worker_id,
                           [kind |-> "rows", payload |-> item.second])
    /\ msg_out' = [msg_out EXCEPT ![w] = Pop(@)]
    /\ UNCHANGED <<codec, inputVars, pc, result, table_out, coll, sc, scanVars,
                   eng, msg_in, record_batches_in>>

\* line 508: Get returns false, the send thread ends
SendExit(w) ==
    /\ PipelineRunning(w)
    /\ eng[w].send_thread = "run"
    /\ Drained(msg_out[w])
    /\ ~SendBlocked(w)
    /\ eng' = [eng EXCEPT ![w].send_thread = "done"]
    /\ UNCHANGED <<codec, inputVars, pc, result, table_out, coll, chan, sc, scanVars,
                   msg_out, msg_in, record_batches_in>>

\* lines 517-524: probe any source, receive its archive, put it on msg_in
RecvItem(w) ==
    /\ PipelineRunning(w)
    /\ eng[w].recv_thread = "run"
    /\ eng[w].remaining_msg_num # 0
    /\ \E src \in Workers :
         /\ chan[src][w] # <<>>
         /\ msg_in' = [msg_in EXCEPT ![w] = Put(@, Head(chan[src][w]).payload)]
         /\ chan' = MpiRecv(src, w)
    /\ eng' = [eng EXCEPT ![w].remaining_msg_num = @ - 1]
    /\ UNCHANGED <<codec, inputVars, pc, result, table_out, coll, sc, scanVars,
                   msg_out, record_batches_in>>

\* line 525: all announced messages received
RecvExit(w) ==
    /\ PipelineRunning(w)
    /\ eng[w].recv_thread = "run"
    /\ eng[w].remaining_msg_num = 0
    /\ msg_in' = [msg_in EXCEPT ![w] = DecProducerNum(@)]
    /\ eng' = [eng EXCEPT ![w].recv_thread = "done"]
    /\ UNCHANGED <<codec, inputVars, pc, result, table_out, coll, chan, sc, scanVars,
                   msg_out, record_batches_in>>

\* line 557: a deserializer's Get returns an archive
DeGet(w) ==
    /\ pc[w] = "eng_join"
    /\ eng[w].de_idle > 0
    /\ CanGet(msg_in[w])
    /\ eng' = [eng EXCEPT ![w].de_idle = @ - 1,
                          ![w].de_busy = @ (+) SetToBag({Head(msg_in[w].queue)})]
    /\ msg_in' = [msg_in EXCEPT ![w] = Pop(@)]
    /\ UNCHANGED <<codec, inputVars, pc, result, table_out, coll, chan, sc, scanVars,
                   msg_out, record_batches_in>>

\* line 557: a deserializer's Get returns false, the thread ends
DeExit(w) ==
    /\ pc[w] = "eng_join"
    /\ eng[w].de_idle > 0
    /\ Drained(msg_in[w])
    /\ eng' = [eng EXCEPT ![w].de_idle = @ - 1]
    /\ UNCHANGED <<codec, inputVars, pc, result, table_out, coll, chan, sc, scanVars,
                   msg_out, msg_in, record_batches_in>>

\* a variant that takes the counter's value after the increment
DeDecodePreIncrement(w) ==
    /\ pc[w] = "eng_join"
    /\ \E arc \in BagToSet(eng[w].de_busy) :
         LET got_batch == eng[w].cur_batch_in + 1
         IN  IF got_batch >= Len(record_batches_in[w])
             THEN /\ Crash(w)
                  /\ UNCHANGED <<eng, record_batches_in>>
             ELSE /\ record_batches_in' =
                        [record_batches_in EXCEPT ![w][got_batch + 1] =
                            DeserializeSelectedRows(arc, table_in[w].schema).batch_out]
                  /\ eng' = [eng EXCEPT ![w].cur_batch_in = @ + 1,
                                        ![w].de_busy = @ (-) SetToBag({arc}),
                                        ![w].de_idle = @ + 1]
                  /\ UNCHANGED <<pc, result>>
    /\ UNCHANGED <<codec, inputVars, table_out, coll, chan, sc, scanVars,
                   msg_out, msg_in>>

\* lines 558-559: claim the next slot and decode into it
DeDecode(w) ==
    /\ pc[w] = "eng_join"
    /\ \E arc \in BagToSet(eng[w].de_busy) :
         LET got_batch == eng[w].cur_batch_in
         IN  IF got_batch >= Len(record_batches_in[w])
             THEN /\ Crash(w)
                  /\ UNCHANGED <<eng, record_batches_in>>
             ELSE /\ record_batches_in' =
                        [record_batches_in EXCEPT ![w][got_batch + 1] =
                            DeserializeSelectedRows(arc, table_in[w].schema).batch_out]
                  /\ eng' = [eng EXCEPT ![w].cur_batch_in = @ + 1,
                                        ![w].de_busy = @ (-) SetToBag({arc}),
                                        ![w].de_idle = @ + 1]
                  /\ UNCHANGED <<pc, result>>
    /\ UNCHANGED <<codec, inputVars, table_out, coll, chan, sc, scanVars,
                   msg_out, msg_in>>

PipelineJoined(w) ==
    /\ eng[w].send_thread = "done"
    /\ eng[w].recv_thread = "done"
    /\ eng[w].ser_idle = 0 /\ eng[w].ser_busy = EmptyBag
    /\ eng[w].de_idle = 0 /\ eng[w].de_busy = EmptyBag

\* a variant that keeps a selection only if it has rows
LocalBatchesWithRows(w) ==
    SelectSeq([rb_i \in 1..Len(record_batches[w]) |->
                 SelectRows(record_batches[w][rb_i], offset_lists[w][rb_i][fid(w) + 1])],
              LAMBDA rb : rb.num_rows # 0)

\* a variant that takes the worker id for the fragment id
LocalBatchesOfWorkerId(w) ==
    [rb_i \in 1..Len(record_batches[w]) |->
        SelectRows(record_batches[w][rb_i], offset_lists[w][rb_i][w + 1])]

\* lines 573-578: the locally selected batches, one per input batch
LocalBatches(w) ==
    [rb_i \in 1..Len(record_batches[w]) |->
        SelectRows(record_batches[w][rb_i], offset_lists[w][rb_i][fid(w) + 1])]

\* lines 564-619: join the pipeline, append the local selections, enter the
\* closing barrier
EngSelect(w) ==
    /\ pc[w] = "eng_join"
    /\ PipelineJoined(w)
    /\ IF \E rb_i \in 1..Len(record_batches[w]) : fid(w) >= Len(offset_lists[w][rb_i])
       THEN /\ Crash(w)
            /\ UNCHANGED <<record_batches_in, coll>>
       ELSE /\ record_batches_in' = [record_batches_in EXCEPT ![w] = @ \o LocalBatches(w)]
            /\ coll' = EnterCollective(w, 0)
            /\ pc' = [pc EXCEPT ![w] = "eng_barrier"]
            /\ UNCHANGED result
    /\ UNCHANGED <<codec, inputVars, table_out, chan, sc, scanVars, eng, msg_out, msg_in>>

\* a variant that returns without waiting in the closing barrier
EngReturnWithoutBarrier(w) ==
    /\ pc[w] = "eng_barrier"
    /\ pc' = [pc EXCEPT ![w] = "eng_returned"]
    /\ UNCHANGED <<codec, inputVars, result, table_out, coll, chan, sc, scanVars,
                   engineVars>>

\* lines 619-620: the closing barrier returns
EngReturn(w) ==
    /\ pc[w] = "eng_barrier"
    /\ Arrived(w)
    /\ pc' = [pc EXCEPT ![w] = "eng_returned"]
    /\ UNCHANGED <<codec, inputVars, result, table_out, coll, chan, sc, scanVars,
                   engineVars>>

(***************************************************************************)
(* The public operations, after the Shuffle Engine.                        *)
(***************************************************************************)
\* the table built of the batches: their columns, concatenated; of no batch,
\* the empty table of the schema
RECURSIVE CombineChunks(_, _)
CombineChunks(schema, batches) ==
    IF batches = <<>>
    THEN [schema |-> schema, num_rows |-> 0, columns |-> [c \in 1..Len(schema) |-> <<>>]]
    ELSE LET rest == CombineChunks(schema, Tail(batches))
         IN  [schema   |-> schema,
              num_rows |-> Head(batches).num_rows + rest.num_rows,
              columns  |-> [c \in 1..Len(schema) |->
                              Head(batches).columns[c] \o rest.columns[c]]]

\* std::remove_if of the batches with no rows
NonEmpty(batches) == SelectSeq(batches, LAMBDA e : e.num_rows # 0)

\* lines 689-710 and 768-788: the empty batches are removed, the table is
\* built (EmptyTableBuilder, or RecordBatchesToTable and CombineChunks), and
\* either may fail; e->num_rows() of a slot never written is a null
\* dereference
\* a variant without the branch of line 775: arrow builds no table of an
\* empty vector of batches
StatusesWithoutEmptyBranch(batches_in) ==
    IF batches_in = <<>> THEN {FALSE} ELSE BOOLEAN

\* lines 774-787: whether the library calls that build the table return OK
BuildStatuses(batches_in) == BOOLEAN

Finish(w) ==
    /\ pc[w] = "eng_returned"
    /\ IF \E i \in 1..Len(record_batches_in[w]) : record_batches_in[w][i] = NullBatch
       THEN /\ Crash(w)
            /\ UNCHANGED table_out
       ELSE /\ LET batches_in == NonEmpty(record_batches_in[w])
               IN  \E ok \in BuildStatuses(batches_in) :
                     IF ok
                     THEN /\ table_out' = [table_out EXCEPT ![w] =
                                             CombineChunks(table_in[w].schema, batches_in)]
                          /\ result' = [result EXCEPT ![w] = "ok"]
                     ELSE /\ result' = [result EXCEPT ![w] = "error"]
                          /\ UNCHANGED table_out
            /\ pc' = [pc EXCEPT ![w] = "done"]
    /\ UNCHANGED <<codec, inputVars, coll, chan, sc, scanVars, engineVars>>

(***************************************************************************)
(* Inputs of the public operations.  A vertex row is (id, property) and is *)
(* routed by id; an edge row is (src, dst, property) and is routed by the  *)
(* fragments of both vertex ids.  The property value names the row's       *)
(* worker, batch and place, so that every input row is told apart.         *)
(***************************************************************************)
KeyBytes(k) == <<k, 0, 0, 0, 0, 0, 0, 0>>

Gid(f, lid) == <<lid, 0, 0, 0, 0, 0, 0, f>>

PrimarySchema(o) ==
    IF o = "vertex" THEN <<"i64", "large_utf8">> ELSE <<"u64", "u64", "large_utf8">>

OtherSchema(o) ==
    IF o = "vertex" THEN <<"i64", "f64">> ELSE <<"u64", "u64", "f64">>

PropertyValue(type, w, i, j) ==
    IF type = "large_utf8" THEN [x \in 1..j |-> 16 * (w + 1) + i]
    ELSE <<w, i, j, 0, 0, 0, 0, 0>>

\* what decides the route of a row: a key, or the fragments of both endpoints
Routes(o, n) ==
    IF o = "vertex" THEN {<<k>> : k \in 0..MaxKey}
    ELSE {<<s, d>> : s \in 0..(n - 1), d \in 0..(n - 1)}

\* batch i of worker w, with one row per route
MakeBatch(o, schema, w, i, routes) ==
    LET property == [j \in 1..Len(routes) |->
                        PropertyValue(schema[Len(schema)], w, i, j)]
    IN  [schema   |-> schema,
         num_rows |-> Len(routes),
         columns  |-> IF o = "vertex"
                      THEN <<[j \in 1..Len(routes) |-> KeyBytes(routes[j][1])], property>>
                      ELSE <<[j \in 1..Len(routes) |-> Gid(routes[j][1], 1)],
                             [j \in 1..Len(routes) |-> Gid(routes[j][2], 2)], property>>]

NonEmptySeqs(S, n) == SeqsUpTo(S, n) \ {<<>>}

TotalRows(t, n) ==
    SumUpTo([w \in 0..(n - 1) |->
               SumUpTo([i \in 0..(Len(t[w]) - 1) |-> Len(t[w][i + 1])], Len(t[w]) - 1)],
            n - 1)

\* per worker the routes of the rows of each batch; batches are not empty
RouteTables(o, n) ==
    {t \in [0..(n - 1) -> SeqsUpTo(NonEmptySeqs(Routes(o, n), MaxRows), MaxBatches)] :
        TotalRows(t, n) <= MaxTotalRows}

\* the schemas presented: the same everywhere, or not all equal
SchemaAssignments(o, n) ==
    {a \in [0..(n - 1) -> {PrimarySchema(o), OtherSchema(o)}] :
        (\A w \in 0..(n - 1) : a[w] = PrimarySchema(o))
          \/ (\E v, w \in 0..(n - 1) : a[v] # a[w])}

\* hardware_concurrency() may be 0 when it cannot be determined
HwChoices == {0, MaxHw}

\* Sends are eager here: every behaviour with synchronous sends is one of
\* these with fewer steps enabled.  SpecBarrier and SpecEngine run both.
Init ==
    \E n \in 1..MaxWorkers :
      \E o \in {"vertex", "edge"} :
        \E t \in RouteTables(o, n) :
          \E a \in SchemaAssignments(o, n) :
            /\ comm_spec \in {[worker_num |-> n, local_num |-> 1, w2f |-> m] :
                               m \in Mappings(n)}
            /\ hardware_concurrency \in HwChoices
            /\ rendezvous = FALSE
            /\ op = o
            /\ table_in = [w \in 0..(n - 1) |->
                             [schema  |-> a[w],
                              batches |-> [i \in 1..Len(t[w]) |->
                                             MakeBatch(o, a[w], w, i - 1, t[w][i])]]]
            /\ pc = [w \in 0..(n - 1) |-> "sc_enter"]
            /\ WorkersIdle(n)
            /\ record_batches = [w \in 0..(n - 1) |-> <<>>]
            /\ offset_lists = [w \in 0..(n - 1) |-> <<>>]
            /\ scan = [w \in 0..(n - 1) |-> [cur |-> 0, idle |-> 0, busy |-> EmptyBag]]
            /\ eng = [w \in 0..(n - 1) |-> EngIdle]
            /\ msg_out = [w \in 0..(n - 1) |-> NewQueue(0)]
            /\ msg_in = [w \in 0..(n - 1) |-> NewQueue(0)]
            /\ record_batches_in = [w \in 0..(n - 1) |-> <<>>]

Next ==
    \/ \E w \in Workers : ScSerialize(w)
    \/ \E w \in Workers : ScAllreduce(w)
    \/ \E w \in Workers : ScSend(w)
    \/ \E w \in Workers : ScRecv(w)
    \/ \E w \in Workers : ScJoin(w)
    \/ \E w \in Workers : ScReturn(w)
    \/ \E w \in Workers : Convert(w)
    \/ \E w \in Workers : ScanClaim(w)
    \/ \E w \in Workers : ScanBatch(w)
    \/ \E w \in Workers : ScanJoin(w)
    \/ \E w \in Workers : EngEnter(w)
    \/ \E w \in Workers : EngAllreduce(w)
    \/ \E w \in Workers : EngResize(w)
    \/ \E w \in Workers : SerClaim(w)
    \/ \E w \in Workers : SerPut(w)
    \/ \E w \in Workers : SendItem(w)
    \/ \E w \in Workers : SendExit(w)
    \/ \E w \in Workers : RecvItem(w)
    \/ \E w \in Workers : RecvExit(w)
    \/ \E w \in Workers : DeGet(w)
    \/ \E w \in Workers : DeExit(w)
    \/ \E w \in Workers : DeDecode(w)
    \/ \E w \in Workers : EngSelect(w)
    \/ \E w \in Workers : EngReturn(w)
    \/ \E w \in Workers : Finish(w)

Spec == Init /\ [][Next]_vars

(***************************************************************************)
(* The Shuffle Engine on its own: every worker calls                       *)
(* ShuffleTableByOffsetLists with its batches and offset lists.  A row is  *)
(* (origin, text): the origin names the worker, batch and place of the     *)
(* row.  Three offset lists (nothing, the first row, all rows in reverse)   *)
(* are dealt in turn over the workers' batches and their fragments.        *)
(***************************************************************************)
EngineSchema == <<"i32", "large_utf8">>

EngineBatch(w, i) ==
    [schema   |-> EngineSchema,
     num_rows |-> MaxRows,
     columns  |-> <<[j \in 1..MaxRows |-> <<w, i, j, 0>>],
                    [j \in 1..MaxRows |-> [x \in 1..(j - 1) |-> 97 + w]]>>]

EngineOffsets(w, i, f) ==
    LET lists == <<<<>>, <<0>>, [j \in 1..MaxRows |-> MaxRows - j]>>
    IN  lists[((w + i + f) % Len(lists)) + 1]

InitEngine ==
    \E n \in 1..MaxEngineWorkers :
      \E k \in [0..(n - 1) -> 0..MaxEngineBatches] :
        /\ comm_spec \in {[worker_num |-> n, local_num |-> 1, w2f |-> m] :
                           m \in Mappings(n)}
        /\ hardware_concurrency \in {0, MaxEngineHw}
        /\ rendezvous \in BOOLEAN
        /\ op = "vertex"
        /\ table_in = [w \in 0..(n - 1) |-> [schema |-> EngineSchema, batches |-> <<>>]]
        /\ pc = [w \in 0..(n - 1) |-> "eng_enter"]
        /\ WorkersIdle(n)
        /\ record_batches = [w \in 0..(n - 1) |->
                               [i \in 1..k[w] |-> EngineBatch(w, i)]]
        /\ offset_lists = [w \in 0..(n - 1) |->
                             [i \in 1..k[w] |->
                                [f \in 1..n |-> EngineOffsets(w, i, f)]]]
        /\ scan = [w \in 0..(n - 1) |-> [cur |-> 0, idle |-> 0, busy |-> EmptyBag]]
        /\ eng = [w \in 0..(n - 1) |-> EngIdle]
        /\ msg_out = [w \in 0..(n - 1) |-> NewQueue(0)]
        /\ msg_in = [w \in 0..(n - 1) |-> NewQueue(0)]
        /\ record_batches_in = [w \in 0..(n - 1) |-> <<>>]

NextEngine ==
    \/ \E w \in Workers : EngEnter(w)
    \/ \E w \in Workers : EngAllreduce(w)
    \/ \E w \in Workers : EngResize(w)
    \/ \E w \in Workers : SerClaim(w)
    \/ \E w \in Workers : SerPut(w)
    \/ \E w \in Workers : SendItem(w)
    \/ \E w \in Workers : SendExit(w)
    \/ \E w \in Workers : RecvItem(w)
    \/ \E w \in Workers : RecvExit(w)
    \/ \E w \in Workers : DeGet(w)
    \/ \E w \in Workers : DeExit(w)
    \/ \E w \in Workers : DeDecode(w)
    \/ \E w \in Workers : EngSelect(w)
    \/ \E w \in Workers : EngReturn(w)

SpecEngine == InitEngine /\ [][NextEngine]_vars

\* The engine over every hardware_concurrency() in 0..MaxSplitHw, with one
\* or all of the workers on this host, fragments numbered as the workers
\* are, eager sends.
InitEngineSplit ==
    \E n \in 1..MaxEngineWorkers :
      \E k \in [0..(n - 1) -> 0..MaxSplitBatches] :
        /\ comm_spec \in {[worker_num |-> n, local_num |-> l, w2f |-> IdentityMapping(n)] :
                           l \in 1..n}
        /\ hardware_concurrency \in 0..MaxSplitHw
        /\ rendezvous = FALSE
        /\ op = "vertex"
        /\ table_in = [w \in 0..(n - 1) |-> [schema |-> EngineSchema, batches |-> <<>>]]
        /\ pc = [w \in 0..(n - 1) |-> "eng_enter"]
        /\ WorkersIdle(n)
        /\ record_batches = [w \in 0..(n - 1) |->
                               [i \in 1..k[w] |-> EngineBatch(w, i)]]
        /\ offset_lists = [w \in 0..(n - 1) |->
                             [i \in 1..k[w] |->
                                [f \in 1..n |-> EngineOffsets(w, i, f)]]]
        /\ scan = [w \in 0..(n - 1) |-> [cur |-> 0, idle |-> 0, busy |-> EmptyBag]]
        /\ eng = [w \in 0..(n - 1) |-> EngIdle]
        /\ msg_out = [w \in 0..(n - 1) |-> NewQueue(0)]
        /\ msg_in = [w \in 0..(n - 1) |-> NewQueue(0)]
        /\ record_batches_in = [w \in 0..(n - 1) |-> <<>>]

SpecEngineSplit == InitEngineSplit /\ [][NextEngine]_vars

\* The engine under fair scheduling, over fewer inputs: the worker with the
\* most batches is worker 0, and fragments are numbered as the workers are.
InitEngineFair ==
    \E n \in 1..MaxEngineWorkers :
      \E k \in {c \in [0..(n - 1) -> 0..MaxEngineBatches] :
                  \A w \in 0..(n - 1) : c[w] <= c[0]} :
        /\ comm_spec = [worker_num |-> n, local_num |-> 1, w2f |-> IdentityMapping(n)]
        /\ hardware_concurrency \in {0, MaxEngineHw}
        /\ rendezvous \in BOOLEAN
        /\ op = "vertex"
        /\ table_in = [w \in 0..(n - 1) |-> [schema |-> EngineSchema, batches |-> <<>>]]
        /\ pc = [w \in 0..(n - 1) |-> "eng_enter"]
        /\ WorkersIdle(n)
        /\ record_batches = [w \in 0..(n - 1) |->
                               [i \in 1..k[w] |-> EngineBatch(w, i)]]
        /\ offset_lists = [w \in 0..(n - 1) |->
                             [i \in 1..k[w] |->
                                [f \in 1..n |-> EngineOffsets(w, i, f)]]]
        /\ scan = [w \in 0..(n - 1) |-> [cur |-> 0, idle |-> 0, busy |-> EmptyBag]]
        /\ eng = [w \in 0..(n - 1) |-> EngIdle]
        /\ msg_out = [w \in 0..(n - 1) |-> NewQueue(0)]
        /\ msg_in = [w \in 0..(n - 1) |-> NewQueue(0)]
        /\ record_batches_in = [w \in 0..(n - 1) |-> <<>>]

\* threads that can run are run, messages that can be taken are taken:
\* while some step of some worker is possible, a step is taken
SpecEngineFair == InitEngineFair /\ [][NextEngine]_vars /\ WF_vars(NextEngine)

\* The engine under every fragment-to-worker mapping of up to MaxMapWorkers
\* workers, worker 0 with MaxMapBatches batches and the others with none, one
\* serializer and one deserializer, eager sends.
InitEngineMap ==
    \E n \in 1..MaxMapWorkers :
      \E k \in {c \in [0..(n - 1) -> {0, MaxMapBatches}] :
                  \A w \in 0..(n - 1) : c[w] = MaxMapBatches <=> w = 0} :
        /\ comm_spec \in {[worker_num |-> n, local_num |-> 1, w2f |-> m] :
                           m \in Mappings(n)}
        /\ hardware_concurrency = 3
        /\ rendezvous = FALSE
        /\ op = "vertex"
        /\ table_in = [w \in 0..(n - 1) |-> [schema |-> EngineSchema, batches |-> <<>>]]
        /\ pc = [w \in 0..(n - 1) |-> "eng_enter"]
        /\ WorkersIdle(n)
        /\ record_batches = [w \in 0..(n - 1) |->
                               [i \in 1..k[w] |-> EngineBatch(w, i)]]
        /\ offset_lists = [w \in 0..(n - 1) |->
                             [i \in 1..k[w] |->
                                [f \in 1..n |-> EngineOffsets(w, i, f)]]]
        /\ scan = [w \in 0..(n - 1) |-> [cur |-> 0, idle |-> 0, busy |-> EmptyBag]]
        /\ eng = [w \in 0..(n - 1) |-> EngIdle]
        /\ msg_out = [w \in 0..(n - 1) |-> NewQueue(0)]
        /\ msg_in = [w \in 0..(n - 1) |-> NewQueue(0)]
        /\ record_batches_in = [w \in 0..(n - 1) |-> <<>>]

SpecEngineMap == InitEngineMap /\ [][NextEngine]_vars

(***************************************************************************)
(* Consecutive collectives: each worker calls ShuffleTableByOffsetLists,   *)
(* then SchemaConsistent, then ShuffleTableByOffsetLists again, each call  *)
(* as soon as its own previous call has returned.                          *)
(***************************************************************************)
\* the first engine call has returned success; the Schema Barrier is called
CallSchemaConsistent(w) ==
    /\ pc[w] = "eng_returned"
    /\ result[w] = "none"
    /\ result' = [result EXCEPT ![w] = "ok"]
    /\ pc' = [pc EXCEPT ![w] = "sc_enter"]
    /\ UNCHANGED <<codec, inputVars, table_out, coll, chan, sc, scanVars, engineVars>>

\* the Schema Barrier has returned success; the engine is called again
CallEngineAgain(w) ==
    /\ pc[w] = "sc_returned"
    /\ ~BarrierFailed(w)
    /\ pc' = [pc EXCEPT ![w] = "eng_enter"]
    /\ UNCHANGED <<codec, inputVars, result, table_out, coll, chan, sc, scanVars,
                   engineVars>>

NextCalls ==
    \/ \E w \in Workers : EngEnter(w)
    \/ \E w \in Workers : EngAllreduce(w)
    \/ \E w \in Workers : EngResize(w)
    \/ \E w \in Workers : SerClaim(w)
    \/ \E w \in Workers : SerPut(w)
    \/ \E w \in Workers : SendItem(w)
    \/ \E w \in Workers : SendExit(w)
    \/ \E w \in Workers : RecvItem(w)
    \/ \E w \in Workers : RecvExit(w)
    \/ \E w \in Workers : DeGet(w)
    \/ \E w \in Workers : DeExit(w)
    \/ \E w \in Workers : DeDecode(w)
    \/ \E w \in Workers : EngSelect(w)
    \/ \E w \in Workers : EngReturn(w)
    \/ \E w \in Workers : CallSchemaConsistent(w)
    \/ \E w \in Workers : ScSerialize(w)
    \/ \E w \in Workers : ScAllreduce(w)
    \/ \E w \in Workers : ScSend(w)
    \/ \E w \in Workers : ScRecv(w)
    \/ \E w \in Workers : ScJoin(w)
    \/ \E w \in Workers : ScReturn(w)
    \/ \E w \in Workers : CallEngineAgain(w)

SpecCalls == InitEngineFair /\ [][NextCalls]_vars

(***************************************************************************)
(* Rows of tables, for the statements about where rows end up.             *)
(***************************************************************************)
RowAt(batch, j) == [c \in 1..Len(batch.columns) |-> batch.columns[c][j]]

RowsOf(batch) == [j \in 1..batch.num_rows |-> RowAt(batch, j)]

RECURSIVE BagOfSeq(_)
BagOfSeq(rows) ==
    IF rows = <<>> THEN EmptyBag
    ELSE SetToBag({Head(rows)}) (+) BagOfSeq(Tail(rows))

\* every input row of every worker, one after the other
AllInputRows ==
    Concat([p \in 1..worker_num |->
              Concat([i \in 1..Len(table_in[p - 1].batches) |->
                        RowsOf(table_in[p - 1].batches[i])])])

OutputRows(q) == BagOfSeq(RowsOf(table_out[q]))

AllSucceeded == \A w \in Workers : result[w] = "ok"

SchemasDiffer == \E v, w \in Workers : table_in[v].schema # table_in[w].schema

(***************************************************************************)
(* C1: vertex shuffle.  Once every worker has returned success, the output *)
(* of worker q holds exactly the input rows (of all workers, counted with  *)
(* multiplicity) whose key in column 0 the partitioner sends to q's        *)
(* fragment: no row lost, duplicated or delivered elsewhere.               *)
(***************************************************************************)
C1_VertexRowsExactlyOnceAtOwner ==
    (op = "vertex" /\ AllSucceeded)
    => \A q \in Workers :
          OutputRows(q) =
            BagOfSeq(SelectSeq(AllInputRows,
                               LAMBDA r : FragToWorker(GetPartitionId(r[1])) = q))

\* two workers under the swapped mapping: a row moved from worker 0 to
\* worker 1, another stayed on worker 1, both workers returned success
C1_Witness ==
    /\ op = "vertex" /\ worker_num = 2 /\ AllSucceeded
    /\ comm_spec.w2f = <<1, 0>>
    /\ Len(table_in[0].batches) = 1 /\ Len(table_in[1].batches) = 1
    /\ table_out[1].num_rows = 2
    /\ table_out[0].num_rows = 0

(***************************************************************************)
(* C2: edge shuffle.  Once every worker has returned success, the output   *)
(* of worker q holds exactly once each input row whose source or whose     *)
(* destination lies in q's fragment; a row with both ends in one fragment  *)
(* appears once overall, and no row appears on another worker.             *)
(***************************************************************************)
C2_EdgeRowsAtBothOwners ==
    (op = "edge" /\ AllSucceeded)
    => \A q \in Workers :
          OutputRows(q) =
            BagOfSeq(SelectSeq(AllInputRows,
                               LAMBDA r : \/ FragToWorker(GetFid(r[src_col_id + 1])) = q
                                          \/ FragToWorker(GetFid(r[dst_col_id + 1])) = q))

\* worker 0 holds an edge with both ends in one fragment and an edge across
\* the two fragments: the first is on one worker only, the second on both
C2_Witness ==
    /\ op = "edge" /\ worker_num = 2 /\ AllSucceeded
    /\ \E i \in 1..Len(AllInputRows), j \in 1..Len(AllInputRows) :
         LET r == AllInputRows[i]
             e == AllInputRows[j]
         IN  /\ GetFid(r[1]) = GetFid(r[2])
             /\ GetFid(e[1]) # GetFid(e[2])
             /\ BagIn(e, OutputRows(0)) /\ BagIn(e, OutputRows(1))
             /\ \E q \in Workers : BagIn(r, OutputRows(q)) /\ ~BagIn(r, OutputRows(1 - q))

(***************************************************************************)
(* C3: Schema Barrier, W >= 2, every schema serialized.  If two workers    *)
(* present unequal schemas, a worker that returns returns                  *)
(* invalid-operation, and every worker does return: when no step is left   *)
(* to take, all have returned.                                             *)
(***************************************************************************)
AllSerialized == \A w \in Workers : sc[w].allreduces = 1 /\ sc[w].serialized_ok

C3_MismatchSeenByAll ==
    (worker_num >= 2 /\ AllSerialized /\ SchemasDiffer)
    => /\ \A w \in Workers :
            pc[w] = "sc_returned" => sc[w].ret = "invalid-operation"
       /\ (~ENABLED NextBarrier) => \A w \in Workers : pc[w] = "sc_returned"

\* three workers, worker 0 agrees with worker 1 but not with worker 2, all
\* three have returned invalid-operation
C3_Witness ==
    /\ worker_num = 3
    /\ table_in[0].schema = table_in[1].schema
    /\ table_in[0].schema # table_in[2].schema
    /\ \A w \in Workers : pc[w] = "sc_returned" /\ sc[w].ret = "invalid-operation"
    /\ \A w \in Workers : sc[w].recv_i = worker_num /\ sc[w].barriers = 1

(***************************************************************************)
(* C4: when a call of the columnar library fails on one worker (the        *)
(* table-to-record-batches conversion, say) and that worker returns the    *)
(* error, every worker returns an error, and no worker is left waiting in  *)
(* a collective for the worker that returned.                              *)
(***************************************************************************)
\* p returned an error after the Schema Barrier and before the engine
ConversionFailed(p) ==
    pc[p] = "done" /\ result[p] = "error" /\ Len(coll[p]) = 2

\* q waits in a collective that a worker who has returned will never enter
WaitsForReturned(q) ==
    /\ pc[q] \in {"sc_allreduce", "sc_barrier", "eng_allreduce", "eng_barrier"}
    /\ \E p \in Workers : pc[p] = "done" /\ Len(coll[p]) < Len(coll[q])

C4_LibraryErrorAbortsAll ==
    \A p \in Workers :
        (pc[p] = "done" /\ result[p] = "error")
        => \A q \in Workers : /\ ~WaitsForReturned(q)
                              /\ result[q] \in {"none", "error"}

\* the conversion failed on worker 0 only; worker 1 is in the batch-count
\* all-reduce, and no step is left to take
C4_Stuck ==
    /\ worker_num = 2
    /\ ConversionFailed(0)
    /\ pc[1] = "eng_allreduce" /\ WaitsForReturned(1)
    /\ ~ENABLED Next

(***************************************************************************)
(* C5: Schema Barrier, serialization failure.  Once a worker has failed to *)
(* serialize its schema, every worker that returns returns arrow-error     *)
(* after exactly one all-reduce; no worker sends or receives in the ring   *)
(* or enters the barrier; and every worker does return.                    *)
(***************************************************************************)
SomeSerializationFailed ==
    \E w \in Workers : sc[w].allreduces = 1 /\ ~sc[w].serialized_ok

C5_SerializationFailureAbortsAll ==
    SomeSerializationFailed
    => /\ \A w \in Workers :
            /\ pc[w] \in {"sc_enter", "sc_allreduce", "sc_returned"}
            /\ pc[w] = "sc_returned" => (sc[w].ret = "arrow-error" /\ sc[w].allreduces = 1)
            /\ sc[w].send_i = 0 /\ sc[w].recv_i = 0 /\ sc[w].barriers = 0
            /\ Len(coll[w]) <= 1
            /\ \A d \in Workers : chan[w][d] = <<>>
       /\ (~ENABLED NextBarrier) => \A w \in Workers : pc[w] = "sc_returned"

\* three workers, only worker 1 failed, all three returned arrow-error
C5_Witness ==
    /\ worker_num = 3
    /\ ~sc[1].serialized_ok /\ sc[0].serialized_ok /\ sc[2].serialized_ok
    /\ \A w \in Workers : pc[w] = "sc_returned" /\ sc[w].ret = "arrow-error"

(***************************************************************************)
(* C6: schemas not all equal.  Every worker's public operation returns the *)
(* Schema Barrier's error; no worker enters the engine or its batch-count  *)
(* all-reduce, and no message carrying rows is in flight or queued.        *)
(***************************************************************************)
C6_MismatchFailsBeforeEngine ==
    SchemasDiffer
    => \A w \in Workers :
         /\ pc[w] \in {"sc_enter", "sc_allreduce", "sc_exchange", "sc_barrier",
                       "sc_returned", "done"}
         /\ pc[w] = "done" => result[w] \in {"invalid-operation", "arrow-error"}
         /\ pc[w] = "done" => result[w] = sc[w].ret
         /\ Len(coll[w]) <= 2
         /\ \A d \in Workers : \A i \in 1..Len(chan[w][d]) : chan[w][d][i].kind = "schema"
         /\ eng[w] = EngIdle /\ msg_out[w].queue = <<>> /\ msg_in[w].queue = <<>>
         /\ record_batches_in[w] = <<>>

\* two workers with rows to move present different schemas and both return
\* invalid-operation
C6_Witness ==
    /\ worker_num = 2 /\ SchemasDiffer
    /\ \A w \in Workers : pc[w] = "done" /\ result[w] = "invalid-operation"
    /\ \E w \in Workers : table_in[w].batches # <<>>

(***************************************************************************)
(* Wire-batches of the engine, for the statements about the pipeline.      *)
(***************************************************************************)
\* N_rx of worker w: the batches of all other workers
BatchesOfPeers(w) ==
    SumUpTo([p \in Workers |-> IF p = w THEN 0 ELSE Len(record_batches[p])],
            worker_num - 1)

InPipeline(w) == pc[w] \in {"eng_resize", "eng_join"}

EngineDone(w) == pc[w] \in {"eng_barrier", "eng_returned"}

\* the worker a row of the engine's input comes from
Origin(row) == row[1][1]

Decoded(arc, w) == DeserializeSelectedRows(arc, table_in[w].schema).batch_out

\* the wire-batch worker p owes worker q for its batch i
Owed(p, q, i) ==
    SerializeSelectedRows(record_batches[p][i], offset_lists[p][i][fid(q) + 1])

\* the batches (1-based) worker p has not yet serialized for worker q: those
\* no serializer has claimed, and those of a serializer that has not yet
\* reached q in its loop over the workers
NotSerializedFor(p, q) ==
    {i \in 1..Len(record_batches[p]) :
        \/ i > eng[p].cur_batch_out
        \/ \E t \in BagToSet(eng[p].ser_busy) :
              t.got_batch + 1 = i /\ t.i <= (q - p + worker_num) % worker_num}

RECURSIVE SeqOfSet(_)
SeqOfSet(S) ==
    IF S = {} THEN <<>>
    ELSE LET x == CHOOSE y \in S : TRUE IN <<x>> \o SeqOfSet(S \ {x})

RECURSIVE SeqOfBag(_)
SeqOfBag(B) ==
    IF B = EmptyBag THEN <<>>
    ELSE LET x == CHOOSE y \in BagToSet(B) : TRUE
         IN  <<x>> \o SeqOfBag(B (-) SetToBag({x}))

\* every wire-batch for q that is on its way, wherever it is: to be
\* serialized, on a sender's outbound queue, in flight, on q's inbound
\* queue, in the hands of a deserializer
OnTheWayTo(q) ==
    Concat([v \in 1..worker_num |->
              LET p == v - 1
                  todo == SeqOfSet(NotSerializedFor(p, q))
                  out  == SelectSeq(msg_out[p].queue, LAMBDA item : item.first = fid(q))
              IN  IF p = q THEN <<>>
                  ELSE [x \in 1..Len(todo) |-> Owed(p, q, todo[x])]
                         \o [x \in 1..Len(out) |-> out[x].second]
                         \o [x \in 1..Len(chan[p][q]) |-> chan[p][q][x].payload]])
      \o msg_in[q].queue
      \o SeqOfBag(eng[q].de_busy)

\* every wire-batch the peers owe q
AllOwedTo(q) ==
    Concat([v \in 1..worker_num |->
              IF v - 1 = q THEN <<>>
              ELSE [i \in 1..Len(record_batches[v - 1]) |-> Owed(v - 1, q, i)]])

\* the slots of the pre-sized part of q's output that hold a batch
StoredAt(q) ==
    SelectSeq(SubSeq(record_batches_in[q], 1,
                     IF EngineDone(q) THEN BatchesOfPeers(q) ELSE Len(record_batches_in[q])),
              LAMBDA rb : rb # NullBatch)

DecodedAll(arcs, q) == [x \in 1..Len(arcs) |-> Decoded(arcs[x], q)]

(***************************************************************************)
(* C7: no item for the local fragment is on the outbound queue, no worker  *)
(* sends rows to itself, and while the pipeline runs the output holds no   *)
(* row of the worker's own input; once the engine is done, the worker's    *)
(* own rows are in the entries appended after the received ones, and only  *)
(* its own rows are there.                                                 *)
(***************************************************************************)
C7_LocalRowsBypassPipeline ==
    \A w \in Workers :
      /\ \A x \in 1..Len(msg_out[w].queue) : msg_out[w].queue[x].first # fid(w)
      /\ chan[w][w] = <<>>
      /\ \A x \in 1..Len(msg_in[w].queue) :
            \A r \in Range(RowsOf(Decoded(msg_in[w].queue[x], w))) : Origin(r) # w
      /\ (InPipeline(w) \/ EngineDone(w))
           => \A x \in 1..Len(record_batches_in[w]) :
                 record_batches_in[w][x] # NullBatch
                 => \A r \in Range(RowsOf(record_batches_in[w][x])) :
                       (Origin(r) = w) <=> (EngineDone(w) /\ x > BatchesOfPeers(w))

\* two workers are done; worker 0 holds a row of its own after the received
\* batches and a row of worker 1 among them
C7_Witness ==
    /\ worker_num = 2
    /\ \A w \in Workers : pc[w] = "eng_returned"
    /\ \E x, y \in 1..Len(record_batches_in[0]) :
         /\ x <= BatchesOfPeers(0) /\ y > BatchesOfPeers(0)
         /\ \E r \in Range(RowsOf(record_batches_in[0][x])) : Origin(r) = 1
         /\ \E r \in Range(RowsOf(record_batches_in[0][y])) : Origin(r) = 0

(***************************************************************************)
(* C8: every wire-batch owed to worker q is, at every moment, at exactly   *)
(* one place: still to be sent, queued, in flight, on q's inbound queue,   *)
(* with one deserializer, or decoded in one slot of q's output.  The       *)
(* receive thread's count matches what it has taken.  When q is done,      *)
(* nothing for q is anywhere but in its output.                            *)
(***************************************************************************)
C8_WireBatchesConsumedOnce ==
    \A q \in Workers :
      /\ BagOfSeq(DecodedAll(OnTheWayTo(q), q)) (+) BagOfSeq(StoredAt(q))
            = BagOfSeq(DecodedAll(AllOwedTo(q), q))
      /\ (InPipeline(q) \/ EngineDone(q))
           => /\ eng[q].record_batches_to_recv - eng[q].remaining_msg_num
                   = Len(msg_in[q].queue) + BagCardinality(eng[q].de_busy)
                       + eng[q].cur_batch_in
              /\ eng[q].cur_batch_in = Len(StoredAt(q))
      /\ EngineDone(q)
           => /\ OnTheWayTo(q) = <<>>
              /\ Len(StoredAt(q)) = BatchesOfPeers(q)

\* two workers with two deserializers each are done, each has decoded the
\* two wire-batches of the other, sends being synchronous
C8_Witness ==
    /\ worker_num = 2 /\ rendezvous /\ deserialize_thread_num = 2
    /\ \A q \in Workers :
         /\ pc[q] = "eng_returned"
         /\ BatchesOfPeers(q) = 2
         /\ eng[q].cur_batch_in = 2
         /\ BagOfSeq(StoredAt(q)) = BagOfSeq(DecodedAll(AllOwedTo(q), q))

(***************************************************************************)
(* C9: when the engine is done on a worker with k input batches, its       *)
(* output has N_rx + k entries: first N_rx decoded wire-batches of peers,  *)
(* none null, then the k local selections in input-batch order, the empty  *)
(* ones included.                                                          *)
(***************************************************************************)
C9_OutputShape ==
    \A w \in Workers :
      EngineDone(w)
      => LET N_rx == BatchesOfPeers(w)
             k    == Len(record_batches[w])
             R    == record_batches_in[w]
         IN  /\ Len(R) = N_rx + k
             /\ \A x \in 1..N_rx :
                   /\ R[x] # NullBatch
                   /\ R[x] \in Range(DecodedAll(AllOwedTo(w), w))
             /\ \A i \in 1..k :
                   R[N_rx + i] = SelectRows(record_batches[w][i],
                                            offset_lists[w][i][fid(w) + 1])

\* worker 0 returned with two received batches, then its two local
\* selections: the first with rows, the second empty
C9_Witness ==
    /\ worker_num = 2 /\ pc[0] = "eng_returned"
    /\ BatchesOfPeers(0) = 2 /\ Len(record_batches[0]) = 2
    /\ Len(record_batches_in[0]) = 4
    /\ record_batches_in[0][3].num_rows > 0
    /\ record_batches_in[0][4].num_rows = 0

(***************************************************************************)
(* C10: codec round trip.  Serializing all rows 0..n-1 of a batch and      *)
(* deserializing the bytes under the batch's schema gives back the batch   *)
(* (row count, column order, every value), and no byte is left over.       *)
(***************************************************************************)
C10_RoundTrip ==
    (codec.pc \in {"deserialized", "selected"}
       /\ codec.offset = AllOffsets(codec.record_batch.num_rows))
    => /\ codec.batch_out = codec.record_batch
       /\ codec.rest = <<>>
       /\ Len(codec.arc) >= CountWidth

\* a column of two lists, the first with values: every byte was consumed,
\* and the batch that comes back holds the second list in row 0 and an
\* empty list in row 1
C10_ListsShifted ==
    /\ codec.pc = "deserialized"
    /\ codec.offset = AllOffsets(codec.record_batch.num_rows)
    /\ codec.record_batch.num_rows = 2
    /\ codec.record_batch.schema = <<"large_list<i32>">>
    /\ codec.record_batch.columns[1][1] # <<>>
    /\ codec.rest = <<>>
    /\ codec.batch_out.num_rows = 2
    /\ codec.batch_out.columns[1] = <<codec.record_batch.columns[1][2], <<>>>>
    /\ codec.batch_out # codec.record_batch

\* the same round trip over the schemas without a list column
NoListColumn(schema) == \A c \in 1..Len(schema) : schema[c] \notin ListTypes

RoundTripWithoutLists ==
    (codec.pc \in {"deserialized", "selected"}
       /\ codec.offset = AllOffsets(codec.record_batch.num_rows)
       /\ NoListColumn(codec.record_batch.schema))
    => /\ codec.batch_out = codec.record_batch
       /\ codec.rest = <<>>

(***************************************************************************)
(* C11: selection equals the round trip.  For every offset list o, with    *)
(* repeats and out of order, SelectRows(batch, o) and                      *)
(* Deserialize(Serialize(batch, o)) are equal batches: |o| rows, and row j *)
(* equal to input row o[j] in every column.                                *)
(***************************************************************************)
\* the two paths give one and the same batch, of |o| rows and the schema
SelectAgreesWithRoundTrip ==
    codec.pc = "selected"
    => /\ codec.selected = codec.batch_out
       /\ codec.selected.num_rows = Len(codec.offset)
       /\ codec.selected.schema = codec.record_batch.schema

\* row j of the selection is input row o[j], column by column
SelectedRowsAreInputRows ==
    codec.pc = "selected"
    => \A c \in 1..Len(codec.record_batch.schema) :
         /\ Len(codec.selected.columns[c]) = Len(codec.offset)
         /\ \A j \in 1..Len(codec.offset) :
              codec.selected.columns[c][j]
                = codec.record_batch.columns[c][codec.offset[j] + 1]

C11_SelectEqualsRoundTrip == SelectAgreesWithRoundTrip /\ SelectedRowsAreInputRows

\* rows 1, 0 of a list column are selected: both paths give the same batch,
\* and its row 0 is not input row 1
C11_SelectedListShifted ==
    /\ codec.pc = "selected"
    /\ codec.record_batch.schema = <<"large_list<i64>">>
    /\ codec.record_batch.num_rows = 2
    /\ codec.offset = <<1, 0>>
    /\ codec.record_batch.columns[1][2] # <<>>
    /\ codec.selected = codec.batch_out
    /\ codec.selected.columns[1][1] # codec.record_batch.columns[1][2]
    /\ codec.selected.columns[1] = <<codec.record_batch.columns[1][1], <<>>>>

(***************************************************************************)
(* C12: row order within a share.  The batch produced at the worker of     *)
(* fragment f from input batch b of worker p (from its wire message, or    *)
(* from the local selection when p is that worker) holds the rows of b     *)
(* destined to f in ascending original row index, which is the order of    *)
(* the scan's offset list O[b][f].                                         *)
(***************************************************************************)
\* row x (1-based) of the batch is routed to fragment f
DestinedTo(batch, x, f) ==
    IF op = "vertex" THEN GetPartitionId(batch.columns[1][x]) = f
    ELSE \/ GetFid(batch.columns[src_col_id + 1][x]) = f
         \/ GetFid(batch.columns[dst_col_id + 1][x]) = f

\* the rows of the batch destined to f, in ascending row index
Share(batch, f) ==
    LET idx == SelectSeq([x \in 1..batch.num_rows |-> x],
                         LAMBDA x : DestinedTo(batch, x, f))
    IN  [j \in 1..Len(idx) |-> RowAt(batch, idx[j])]

Ascending(offset) == \A j \in 1..(Len(offset) - 1) : offset[j] < offset[j + 1]

C12_ShareKeepsRowOrder ==
    /\ \A p \in Workers : \A i \in 1..Len(offset_lists[p]) :
         \A f \in 1..Len(offset_lists[p][i]) : Ascending(offset_lists[p][i][f])
    /\ \A q \in Workers : \A x \in 1..Len(record_batches_in[q]) :
         LET rb == record_batches_in[q][x]
         IN  (rb # NullBatch /\ rb.num_rows > 0)
             => \E p \in Workers : \E i \in 1..Len(record_batches[p]) :
                  RowsOf(rb) = Share(record_batches[p][i], fid(q))

\* two workers, all returned success, and some worker holds a batch of two
\* different rows that came from its peer
C12_Witness ==
    /\ worker_num = 2
    /\ AllSucceeded
    /\ \E q \in Workers : \E x \in 1..Len(record_batches_in[q]) :
         LET rb == record_batches_in[q][x]
         IN  /\ rb # NullBatch
             /\ rb.num_rows = 2
             /\ RowAt(rb, 1) # RowAt(rb, 2)
             /\ \E i \in 1..Len(record_batches[1 - q]) :
                  RowsOf(rb) = RowsOf(record_batches[1 - q][i])

(***************************************************************************)
(* C13: total output row count.  After a successful edge shuffle the       *)
(* output tables of all workers together have as many rows as the input    *)
(* has, plus one for every input edge row whose endpoints map to distinct  *)
(* fragments; after a successful vertex shuffle they have as many rows as  *)
(* the input.                                                              *)
(***************************************************************************)
TotalOutputRows ==
    SumUpTo([w \in Workers |-> table_out[w].num_rows], worker_num - 1)

\* the input edge rows with endpoints in distinct fragments
CrossingRows ==
    {x \in 1..Len(AllInputRows) :
        GetFid(AllInputRows[x][src_col_id + 1]) # GetFid(AllInputRows[x][dst_col_id + 1])}

C13_TotalOutputRows ==
    AllSucceeded
    => /\ op = "vertex" => TotalOutputRows = Len(AllInputRows)
       /\ op = "edge" => TotalOutputRows = Len(AllInputRows) + Cardinality(CrossingRows)
       /\ \A w \in Workers : \A c \in 1..Len(table_out[w].columns) :
            Len(table_out[w].columns[c]) = table_out[w].num_rows

\* an edge shuffle over two workers: two input rows, one of them with its
\* endpoints in distinct fragments, three output rows
C13_Witness ==
    /\ AllSucceeded
    /\ op = "edge"
    /\ worker_num = 2
    /\ Len(AllInputRows) = 2
    /\ Cardinality(CrossingRows) = 1
    /\ TotalOutputRows = 3

(***************************************************************************)
(* C14: empty results.  After the engine returns, zero-row batches         *)
(* (received or selected locally) are dropped before concatenation; a      *)
(* worker left with no non-empty batch, one with no input batch that       *)
(* received only empty wire-batches included, returns success with an      *)
(* empty table of the input schema, and it has taken part in every         *)
(* collective step.                                                        *)
(***************************************************************************)
\* every batch the engine left the worker has no row (or there is none)
EmptyHanded(w) ==
    \A x \in 1..Len(record_batches_in[w]) : record_batches_in[w][x].num_rows = 0

EmptyTable(schema) ==
    [schema |-> schema, num_rows |-> 0, columns |-> [c \in 1..Len(schema) |-> <<>>]]

\* the worker builds its table and returns success
FinishOk(w) == Finish(w) /\ result'[w] = "ok"

C14_EmptyResultIsSuccess ==
    \A w \in Workers :
      /\ (pc[w] = "eng_returned" /\ EmptyHanded(w)) => ENABLED FinishOk(w)
      /\ (pc[w] = "done" /\ result[w] = "ok")
         => /\ Len(coll[w]) = 4   \* the barrier's and the engine's all-reduce and barrier
            /\ RowsOf(table_out[w])
                 = Concat([x \in 1..Len(record_batches_in[w]) |->
                             RowsOf(record_batches_in[w][x])])
            /\ EmptyHanded(w) => table_out[w] = EmptyTable(table_in[w].schema)

\* a worker without input batches received one wire-batch, of no rows, from
\* its peer, and returned success with the empty table of its schema
C14_Witness ==
    /\ worker_num = 2
    /\ \E w \in Workers :
         /\ table_in[w].batches = <<>>
         /\ Len(record_batches_in[w]) = 1
         /\ record_batches_in[w][1].num_rows = 0
         /\ record_batches_in[w][1].schema = table_in[w].schema
         /\ pc[w] = "done" /\ result[w] = "ok"
         /\ table_out[w] = EmptyTable(table_in[w].schema)
         /\ Len(coll[w]) = 4

(***************************************************************************)
(* C15: the Schema Barrier is idempotent.  When all workers call           *)
(* SchemaConsistent twice in a row with the same schemas, each worker gets *)
(* from the second call the result of the first, and no schema message     *)
(* sent in the first call is received by a receive step of the second.     *)
(***************************************************************************)
\* the call a worker is in, or has last returned from
Call(w) == IF earlier_call[w] = <<>> THEN 1 ELSE 2

\* the step of the ring at which p sends to q
RingStep(p, q) == (q - p + worker_num) % worker_num

\* p's send thread has, in p's current call, sent the message for q
SentInThisCall(p, q) ==
    /\ pc[p] \in {"sc_exchange", "sc_barrier", "sc_returned"}
    /\ sc[p].send_i > RingStep(p, q)

\* q's receive thread has, in q's current call, received the message of p
ReceivedInThisCall(q, p) ==
    /\ pc[q] \in {"sc_exchange", "sc_barrier", "sc_returned"}
    /\ sc[q].recv_i > RingStep(p, q)

C15_BarrierIdempotent ==
    /\ \A w \in Workers :
         (pc[w] = "sc_returned" /\ earlier_call[w] # <<>>)
         => sc[w].ret = earlier_call[w][1].ret
    /\ \A p, q \in Workers :
         chan[p][q] # <<>>
         => /\ Len(chan[p][q]) = 1
            /\ Call(p) = Call(q)
            /\ SentInThisCall(p, q)
            /\ ~ReceivedInThisCall(q, p)
    /\ (~ENABLED NextBarrierTwice)
       => \A w \in Workers : pc[w] = "sc_returned" /\ earlier_call[w] # <<>>

\* three workers, not all with the same schema, are back from their second
\* call, each with the result of its first: invalid-operation
C15_Witness ==
    /\ worker_num = 3
    /\ \A w \in Workers :
         /\ pc[w] = "sc_returned"
         /\ earlier_call[w] # <<>>
         /\ earlier_call[w][1].ret = "invalid-operation"
         /\ sc[w].ret = "invalid-operation"
         /\ sc[w].recv_i = worker_num
    /\ \A p, q \in Workers : chan[p][q] = <<>>

(***************************************************************************)
(* C17: the ring exchange.  At step i worker p sends to (p + i) mod W and  *)
(* receives from (p - i) mod W; each ordered pair of distinct workers      *)
(* exchanges exactly one schema message; the message received at step i is *)
(* the one its source sent at step i; the exchange completes without       *)
(* deadlock for every W >= 1, also when sends block until received.        *)
(***************************************************************************)
Indicator(b) == IF b THEN 1 ELSE 0

C17_RingExchange ==
    /\ \A p \in Workers : chan[p][p] = <<>>
    /\ \A p, q \in Workers :
         p # q
         => /\ Len(chan[p][q])
                 = Indicator(SentInThisCall(p, q)) - Indicator(ReceivedInThisCall(q, p))
            /\ \A x \in 1..Len(chan[p][q]) :
                 chan[p][q][x] = [kind    |-> "schema",
                                  payload |-> SerializeSchema(table_in[p].schema)]
    /\ \A w \in Workers :
         (pc[w] = "sc_barrier" \/ (pc[w] = "sc_returned" /\ sc[w].ret # "arrow-error"))
         => sc[w].send_i = worker_num /\ sc[w].recv_i = worker_num
    /\ (~ENABLED NextBarrier) => \A w \in Workers : pc[w] = "sc_returned"

\* three workers with synchronous sends: all six messages were sent and
\* received, and every worker has returned
C17_Witness ==
    /\ worker_num = 3
    /\ rendezvous
    /\ \A w \in Workers :
         /\ pc[w] = "sc_returned"
         /\ sc[w].ret # "arrow-error"
         /\ sc[w].send_i = 3 /\ sc[w].recv_i = 3
    /\ \A p, q \in Workers : chan[p][q] = <<>>

(***************************************************************************)
(* C16: the engine terminates.  When all workers enter                     *)
(* ShuffleTableByOffsetLists and every sent message is delivered, all      *)
(* pipeline threads of every worker end and the worker passes the closing  *)
(* barrier and returns.  The send thread ends only after every serializer  *)
(* has announced completion and the outbound queue is drained; a           *)
(* deserializer ends only after the receive thread has announced           *)
(* completion and the inbound queue is drained.  For any batch counts (0   *)
(* included) and blocking sends.                                           *)
(***************************************************************************)
\* the deserializer threads were started
DeserializersStarted(w) == pc[w] \in {"eng_join", "eng_barrier", "eng_returned"}

\* deserializer threads that have not ended
LiveDeserializers(w) == eng[w].de_idle + BagCardinality(eng[w].de_busy)

ThreadsExitInOrder ==
    \A w \in Workers :
      /\ eng[w].send_thread = "done"
         => /\ eng[w].ser_idle = 0 /\ eng[w].ser_busy = EmptyBag
            /\ msg_out[w].producer_num = 0
            /\ msg_out[w].queue = <<>>
      /\ (DeserializersStarted(w) /\ LiveDeserializers(w) < deserialize_thread_num)
         => /\ eng[w].recv_thread = "done"
            /\ msg_in[w].producer_num = 0
            /\ msg_in[w].queue = <<>>
      /\ pc[w] \in {"eng_barrier", "eng_returned"} => PipelineJoined(w)

AllReturned == \A w \in Workers : pc[w] = "eng_returned"

C16_EngineTerminates == []ThreadsExitInOrder /\ <>AllReturned

\* two workers with synchronous sends, worker 1 without batches, worker 0
\* with two: all threads have ended and both workers have returned
C16_Witness ==
    /\ worker_num = 2
    /\ rendezvous
    /\ Len(record_batches[0]) = 2
    /\ Len(record_batches[1]) = 0
    /\ AllReturned
    /\ \A w \in Workers : PipelineJoined(w)
    /\ Len(record_batches_in[1]) = 2

(***************************************************************************)
(* C18: message counts agree.  A worker with k input batches sends one     *)
(* wire message per (input batch, remote worker), also for an empty row    *)
(* list, so worker q is sent the sum of k_p over p # q messages; that is   *)
(* the N_rx = total - k_q its receive thread counts down, and the receive  *)
(* thread neither stops while a message is still addressed to q nor waits  *)
(* for a message that is never sent.                                       *)
(***************************************************************************)
\* the messages of p for q that q has not yet received: not yet serialized,
\* on p's outbound queue, or in flight
ToBeReceived(p, q) ==
    Cardinality(NotSerializedFor(p, q))
      + Len(SelectSeq(msg_out[p].queue, LAMBDA item : item.first = fid(q)))
      + Len(chan[p][q])

AddressedTo(q) ==
    SumUpTo([p \in Workers |-> IF p = q THEN 0 ELSE ToBeReceived(p, q)], worker_num - 1)

PastAllreduce(q) == pc[q] \notin {"eng_enter", "eng_allreduce"}

C18_MessageCountsAgree ==
    \A q \in Workers :
         /\ chan[q][q] = <<>>
         /\ \A p \in Workers \ {q} : ToBeReceived(p, q) <= Len(record_batches[p])
         /\ IF PastAllreduce(q)
            THEN /\ eng[q].record_batches_to_recv = BatchesOfPeers(q)
                 /\ eng[q].remaining_msg_num = AddressedTo(q)
            ELSE AddressedTo(q) = BatchesOfPeers(q)
         /\ eng[q].recv_thread = "done" => AddressedTo(q) = 0

\* worker q has counted down its two messages, one of them a batch without
\* rows, and nothing is addressed to it any more
C18_Witness ==
    /\ worker_num = 2
    /\ \E q \in Workers :
         /\ eng[q].recv_thread = "done"
         /\ eng[q].record_batches_to_recv = 2
         /\ Len(record_batches[1 - q]) = 2
         /\ eng[q].remaining_msg_num = 0
         /\ AddressedTo(q) = 0
         /\ EngineDone(q)
         /\ \E x \in 1..2 : record_batches_in[q][x].num_rows = 0
         /\ \E x \in 1..2 : record_batches_in[q][x].num_rows > 0

(***************************************************************************)
(* C19: slot claims of the deserializers.  Every index a deserializer gets *)
(* from the atomic counter is in 0..N_rx-1; no two decoded messages go to  *)
(* the same slot; after the pool has joined every slot 0..N_rx-1 was       *)
(* written exactly once; no slot is written while the output vector is     *)
(* pre-sized or while the local batches are appended.                      *)
(***************************************************************************)
N_rx(w) == eng[w].record_batches_to_recv

\* the slots (1-based) of the output vector that hold a decoded batch
WrittenSlots(w) ==
    {x \in 1..Len(record_batches_in[w]) : record_batches_in[w][x] # NullBatch}

C19_SlotsClaimedOnce ==
    \A w \in Workers :
      /\ pc[w] # "crashed"
      /\ eng[w].cur_batch_in <= N_rx(w)
      /\ LiveDeserializers(w) > 0
         => /\ pc[w] = "eng_join"
            /\ Len(record_batches_in[w]) = N_rx(w)
      /\ pc[w] = "eng_join"
         => /\ WrittenSlots(w) = 1..eng[w].cur_batch_in
            /\ eng[w].cur_batch_in + BagCardinality(eng[w].de_busy)
                 + Len(msg_in[w].queue) + eng[w].remaining_msg_num = N_rx(w)
      /\ EngineDone(w)
         => /\ eng[w].cur_batch_in = N_rx(w)
            /\ LiveDeserializers(w) = 0
            /\ \A x \in 1..N_rx(w) : record_batches_in[w][x] # NullBatch

\* a worker with two deserializer threads is past the joins: its two
\* slots hold two different decoded batches
C19_Witness ==
    \E w \in Workers :
      /\ EngineDone(w)
      /\ deserialize_thread_num = 2
      /\ N_rx(w) = 2
      /\ eng[w].cur_batch_in = 2
      /\ {1, 2} \subseteq WrittenSlots(w)
      /\ record_batches_in[w][1] # record_batches_in[w][2]

(***************************************************************************)
(* C20: the thread split.  For every thread budget T the engine starts     *)
(* S = max(1, (T-2)/2) serializers and D = max(1, T-2-S) deserializers     *)
(* (integer division), and the outbound queue's declared producer count    *)
(* is S.                                                                   *)
(***************************************************************************)
\* serializer threads that have not ended
LiveSerializers(w) == eng[w].ser_idle + BagCardinality(eng[w].ser_busy)

\* the engine runs S serializers and D deserializers on every worker: the
\* outbound queue is declared S producers, S serializers are there when they
\* start, a producer is still declared for each that lives, and D
\* deserializers are there as long as the receive thread has not announced
\* its completion
SplitIs(S, D) ==
    \A w \in Workers :
      /\ pc[w] = "eng_allreduce" => msg_out[w].producer_num = S
      /\ (pc[w] = "eng_resize" /\ eng[w].cur_batch_out = 0) => LiveSerializers(w) = S
      /\ PipelineRunning(w) => msg_out[w].producer_num = LiveSerializers(w)
      /\ (pc[w] = "eng_join" /\ msg_in[w].producer_num = 1) => LiveDeserializers(w) = D

\* the claim as stated: the serializers get half of the spare threads
C20_SplitAsStated ==
    LET S == Max(1, TruncDiv(thread_num - 2, 2))
        D == Max(1, thread_num - 2 - S)
    IN  SplitIs(S, D)

\* amended: the deserializers get half of the spare threads, the
\* serializers the rest
C20_ThreadSplit ==
    LET D == Max(1, TruncDiv(thread_num - 2, 2))
        S == Max(1, thread_num - 2 - D)
    IN  SplitIs(S, D)

\* a budget of 5 threads: two serializers and one deserializer are running
C20_Witness ==
    /\ thread_num = 5
    /\ \E w \in Workers :
         /\ pc[w] = "eng_join"
         /\ msg_in[w].producer_num = 1
         /\ LiveSerializers(w) = 2
         /\ msg_out[w].producer_num = 2
         /\ LiveDeserializers(w) = 1

(***************************************************************************)
(* C21: the thread budget.  T = ceil(hardware_concurrency /                *)
(* local_worker_count), with a minimum of 3; for every                     *)
(* hardware_concurrency (0 and 1 included) and every local_worker_count    *)
(* >= 1 the engine runs one send thread, one receive thread, at least one  *)
(* serializer and at least one deserializer.                               *)
(***************************************************************************)
CeilDiv(a, b) == (a + b - 1) \div b

\* the engine's threads: both I/O threads were started once the all-reduce
\* is over, a serializer is there when the pool starts, a deserializer as
\* long as the receive thread has not announced its completion
EngineThreadsExist ==
    \A w \in Workers :
      /\ PipelineRunning(w)
         => eng[w].send_thread \in {"run", "done"} /\ eng[w].recv_thread \in {"run", "done"}
      /\ (pc[w] = "eng_resize" /\ eng[w].cur_batch_out = 0) => LiveSerializers(w) >= 1
      /\ (pc[w] = "eng_join" /\ msg_in[w].producer_num = 1) => LiveDeserializers(w) >= 1

C21_ThreadBudget ==
    /\ thread_num = Max(3, CeilDiv(hardware_concurrency, comm_spec.local_num))
    /\ EngineThreadsExist

\* hardware_concurrency() = 0: the budget is 0, and the engine runs its two
\* I/O threads, one serializer and one deserializer
C21_BudgetBelowThree ==
    /\ hardware_concurrency = 0
    /\ thread_num = 0
    /\ \E w \in Workers :
         /\ pc[w] = "eng_join"
         /\ eng[w].send_thread = "run" /\ eng[w].recv_thread = "run"
         /\ LiveSerializers(w) = 1
         /\ LiveDeserializers(w) = 1

(***************************************************************************)
(* C22: the scan phase of both routers.  Each input batch index is claimed *)
(* by exactly one scan worker through the atomic counter, so the offset    *)
(* lists of a batch are written by one thread; after the scan threads have *)
(* joined, every batch has exactly F destination lists, every stored row   *)
(* index idx satisfies 0 <= idx < batch.row_count, and each list is        *)
(* strictly ascending.                                                     *)
(***************************************************************************)
\* the scan threads of the worker have joined and the engine was called
Scanned(w) ==
    pc[w] \in {"eng_enter", "eng_allreduce", "eng_resize", "eng_join",
               "eng_barrier", "eng_returned"}

\* batch got (0-based) has its F lists, of ascending row indices in range
ListsComplete(w, got) ==
    /\ Len(offset_lists[w][got + 1]) = fnum
    /\ \A f \in 1..fnum :
         LET offset == offset_lists[w][got + 1][f]
         IN  /\ Ascending(offset)
             /\ \A j \in 1..Len(offset) :
                  0 <= offset[j] /\ offset[j] < record_batches[w][got + 1].num_rows

ScanPhase(w) ==
    /\ pc[w] = "scan"
       => /\ \A got \in BagToSet(scan[w].busy) :
               /\ CopiesIn(got, scan[w].busy) = 1
               /\ got < scan[w].cur /\ got < Len(record_batches[w])
               /\ offset_lists[w][got + 1] = <<>>
          /\ \A got \in 0..(Len(record_batches[w]) - 1) :
               /\ got >= scan[w].cur => offset_lists[w][got + 1] = <<>>
               /\ (got < scan[w].cur /\ ~BagIn(got, scan[w].busy)) => ListsComplete(w, got)
    /\ Scanned(w)
       => /\ Len(offset_lists[w]) = Len(record_batches[w])
          /\ \A got \in 0..(Len(record_batches[w]) - 1) : ListsComplete(w, got)

C22_ScanPhase == \A w \in Workers : ScanPhase(w)

\* the same, when hardware_concurrency() is not 0
ScanPhaseWithThreads == hardware_concurrency > 0 => C22_ScanPhase

\* hardware_concurrency() = 0: no scan thread was started, the engine is
\* entered, and a batch with rows has no destination list at all
C22_NothingScanned ==
    /\ hardware_concurrency = 0
    /\ \E w \in Workers :
         /\ pc[w] = "eng_enter"
         /\ scan[w].cur = 0
         /\ Len(record_batches[w]) >= 1
         /\ record_batches[w][1].num_rows >= 1
         /\ offset_lists[w][1] = <<>>

(***************************************************************************)
(* C23: back-pressure.  The outbound queue (serializers -> send thread)    *)
(* and the inbound queue (receive thread -> deserializers) are bounded:    *)
(* neither ever holds more items than a fixed capacity, a producer's put   *)
(* blocks while the queue is full, and a consumer's get blocks while the   *)
(* queue is empty and producers remain.  The capacity the claim is tried   *)
(* with is QueueCapacity; a worker of the model produces up to             *)
(* MaxEngineBatches * (MaxEngineWorkers - 1) items.                        *)
(***************************************************************************)
\* a get neither returns an item nor returns false
GetBlocks(q) == ~CanGet(q) /\ ~Drained(q)

\* the consumers wait while their queue is empty and producers remain
ConsumersWait ==
    \A w \in Workers :
      /\ (msg_out[w].queue = <<>> /\ msg_out[w].producer_num > 0)
         => GetBlocks(msg_out[w])
      /\ (msg_in[w].queue = <<>> /\ msg_in[w].producer_num > 0)
         => GetBlocks(msg_in[w])

\* a serializer holds a batch whose next item it is about to put
SerializerAtPut(w) == PipelineRunning(w) /\ eng[w].ser_busy # EmptyBag

\* the receive thread can take a message and put it on the inbound queue
ReceiverAtPut(w) ==
    /\ PipelineRunning(w)
    /\ eng[w].recv_thread = "run"
    /\ eng[w].remaining_msg_num # 0
    /\ \E src \in Workers : chan[src][w] # <<>>

C23_QueuesBounded ==
    /\ \A w \in Workers :
         /\ Len(msg_out[w].queue) <= QueueCapacity
         /\ Len(msg_in[w].queue) <= QueueCapacity
         /\ (Len(msg_out[w].queue) >= QueueCapacity /\ SerializerAtPut(w))
            => ~ENABLED SerPut(w)
         /\ (Len(msg_in[w].queue) >= QueueCapacity /\ ReceiverAtPut(w))
            => ~ENABLED RecvItem(w)
    /\ ConsumersWait

\* puts never wait, whatever the queues hold
PutsNeverBlock ==
    \A w \in Workers :
      /\ SerializerAtPut(w) => ENABLED SerPut(w)
      /\ ReceiverAtPut(w) => ENABLED RecvItem(w)

\* the outbound queue of a worker holds every item the worker will ever
\* produce, none was sent yet, and that is more than the capacity
C23_QueueHoldsEverything ==
    /\ worker_num = 2
    /\ \E w \in Workers :
         /\ Len(record_batches[w]) = MaxEngineBatches
         /\ Len(msg_out[w].queue) = MaxEngineBatches * (worker_num - 1)
         /\ Len(msg_out[w].queue) > QueueCapacity
         /\ eng[w].send_thread = "run"
         /\ \A d \in Workers : chan[w][d] = <<>>
         /\ eng[1 - w].record_batches_to_recv = eng[1 - w].remaining_msg_num


(***************************************************************************)
(* C24: the closing barrier isolates consecutive collectives.  No worker   *)
(* has returned from ShuffleTableByOffsetLists, or from SchemaConsistent   *)
(* on its success or mismatch path, while a worker has a send or a receive *)
(* of that call outstanding; a message in flight is of the call both its   *)
(* sender and its receiver are in, so a receive thread counts down the     *)
(* messages of its own call only and a Schema Barrier receives schemas     *)
(* only.                                                                   *)
(***************************************************************************)
\* the call worker w is in: 1 the engine, 2 the Schema Barrier, 3 the engine
\* again
Phase(w) ==
    IF pc[w] \in {"sc_enter", "sc_allreduce", "sc_exchange", "sc_barrier", "sc_returned"}
    THEN 2
    ELSE IF result[w] = "none" THEN 1 ELSE 3

NothingInFlight == \A p, q \in Workers : chan[p][q] = <<>>

EngineIoFinished(v) ==
    /\ pc[v] \in {"eng_barrier", "eng_returned"}
    /\ PipelineJoined(v)

BarrierIoFinished(v) ==
    /\ pc[v] \in {"sc_barrier", "sc_returned"}
    /\ sc[v].send_i = worker_num
    /\ sc[v].recv_i = worker_num

MessagesOfOwnCall ==
    \A p, q \in Workers : \A x \in 1..Len(chan[p][q]) :
         /\ Phase(p) = Phase(q)
         /\ IF Phase(q) = 2
            THEN /\ chan[p][q][x].kind = "schema"
                 /\ pc[q] \in {"sc_allreduce", "sc_exchange"}
                 /\ SentInThisCall(p, q)
                 /\ ~ReceivedInThisCall(q, p)
            ELSE /\ chan[p][q][x].kind = "rows"
                 /\ pc[q] \in {"eng_allreduce", "eng_resize", "eng_join"}
                 /\ eng[q].recv_thread # "done"

C24_ClosingBarrier ==
    /\ \A w \in Workers :
         pc[w] = "eng_returned"
         => /\ NothingInFlight
            /\ \A v \in Workers :
                 \/ Phase(v) = Phase(w) /\ EngineIoFinished(v)
                 \/ Phase(v) = Phase(w) + 1 /\ pc[v] \in {"sc_enter", "sc_allreduce"}
    /\ \A w \in Workers :
         (pc[w] = "sc_returned" /\ sc[w].ret # "arrow-error")
         => /\ NothingInFlight
            /\ \A v \in Workers :
                 \/ BarrierIoFinished(v)
                 \/ Phase(v) = 3 /\ pc[v] \in {"eng_enter", "eng_allreduce"}
    /\ MessagesOfOwnCall
    /\ \A q \in Workers :
         PipelineRunning(q)
         => /\ \A p \in Workers : Phase(p) = Phase(q)
            /\ eng[q].remaining_msg_num = AddressedTo(q)

\* both workers have returned from the second engine call, each having
\* received a message of it, after a Schema Barrier that exchanged schemas
C24_Witness ==
    /\ worker_num = 2
    /\ \A w \in Workers :
         /\ Phase(w) = 3
         /\ pc[w] = "eng_returned"
         /\ sc[w].ret = "ok"
         /\ sc[w].recv_i = worker_num
         /\ eng[w].record_batches_to_recv >= 1
         /\ eng[w].recv_thread = "done"


(***************************************************************************)
(* C25: offset-tensor indexing is in range when the Shuffle Engine runs.   *)
(* For every hardware_concurrency(), 0 included, once the scan threads     *)
(* have joined every input batch has an offset list of F entries, every    *)
(* serializer's access O[i][dst_fid] and the local selection's access      *)
(* O[i][fid] is to an existing list, and no worker ends on an index out of *)
(* range.                                                                  *)
(***************************************************************************)
\* the access O[got][f] of worker w is to an existing list
ListExists(w, got, f) == f < Len(offset_lists[w][got + 1])

AccessesInRange(w) ==
    /\ \A got \in 0..(Len(record_batches[w]) - 1) :
         Len(offset_lists[w][got + 1]) = fnum
    /\ \A t \in BagToSet(eng[w].ser_busy) :
         ListExists(w, t.got_batch, WorkerToFrag((w + t.i) % worker_num))
    /\ \A got \in 0..(Len(record_batches[w]) - 1) : ListExists(w, got, fid(w))

C25_OffsetIndexInRange ==
    \A w \in Workers :
         /\ pc[w] # "crashed"
         /\ Scanned(w) => AccessesInRange(w)

\* the same, when hardware_concurrency() is not 0
IndexInRangeWithThreads == hardware_concurrency > 0 => C25_OffsetIndexInRange

\* hardware_concurrency() = 0 and two workers: a worker with a batch of rows
\* has ended in a serializer on O[0][dst_fid], no list of the batch existing
C25_IndexOutOfRange ==
    /\ hardware_concurrency = 0
    /\ worker_num = 2
    /\ \E w \in Workers :
         /\ pc[w] = "crashed"
         /\ result[w] = "crashed"
         /\ Len(record_batches[w]) >= 1
         /\ record_batches[w][1].num_rows >= 1
         /\ offset_lists[w][1] = <<>>
         /\ \E t \in BagToSet(eng[w].ser_busy) :
              ~ListExists(w, t.got_batch, WorkerToFrag((w + t.i) % worker_num))


(***************************************************************************)
(* C26: destination mapping round trip in the Shuffle Engine.  An item on  *)
(* the outbound queue holds the rows of O[i][f] of a batch i and is tagged *)
(* with that fragment f, the fragment of a remote worker; a message in     *)
(* flight from p to q holds the rows of O[i][WorkerToFrag(q)] and p # q;   *)
(* once all workers are done, for every batch i of every worker p and      *)
(* every fragment f the rows of O[i][f] are in p's own output if f is p's  *)
(* fragment and otherwise were received by FragToWorker(f) and by no other *)
(* worker.                                                                 *)
(***************************************************************************)
\* the archive of the rows of O[i][f] of p's batch i (1-based)
EncodedFor(p, i, f) ==
    SerializeSelectedRows(record_batches[p][i], offset_lists[p][i][f + 1])

\* the workers other than p that hold, among their received batches, the
\* rows of O[i][f] of p's batch i
ReceiversOf(p, i, f) ==
    {v \in Workers \ {p} :
        \E x \in 1..BatchesOfPeers(v) :
           /\ x <= Len(record_batches_in[v])
           /\ record_batches_in[v][x] = Decoded(EncodedFor(p, i, f), v)}

\* the lists of every batch select different rows for different fragments,
\* so that an archive tells the fragment it was encoded for
ArchiveTellsFragment ==
    \A p \in Workers : \A i \in 1..Len(record_batches[p]) :
       \A f, g \in Fragments :
          EncodedFor(p, i, f) = EncodedFor(p, i, g) => f = g

C26_DestinationMapping ==
    /\ \A p \in Workers :
         /\ \A x \in 1..Len(msg_out[p].queue) :
              LET item == msg_out[p].queue[x]
              IN  /\ item.first \in Fragments \ {fid(p)}
                  /\ FragToWorker(item.first) # p
                  /\ WorkerToFrag(FragToWorker(item.first)) = item.first
                  /\ \E i \in 1..Len(record_batches[p]) :
                       item.second = EncodedFor(p, i, item.first)
         /\ \A t \in BagToSet(eng[p].ser_busy) :
              t.i \in 1..(worker_num - 1) /\ (p + t.i) % worker_num # p
         /\ chan[p][p] = <<>>
         /\ \A q \in Workers : \A x \in 1..Len(chan[p][q]) :
              \E i \in 1..Len(record_batches[p]) :
                 chan[p][q][x].payload = EncodedFor(p, i, WorkerToFrag(q))
    /\ (ArchiveTellsFragment /\ \A w \in Workers : EngineDone(w))
         => \A p \in Workers : \A i \in 1..Len(record_batches[p]) :
              \A f \in Fragments :
                 IF f = fid(p)
                 THEN /\ record_batches_in[p][BatchesOfPeers(p) + i]
                           = SelectRows(record_batches[p][i], offset_lists[p][i][f + 1])
                      /\ ReceiversOf(p, i, f) = {}
                 ELSE ReceiversOf(p, i, f) = {FragToWorker(f)}

\* three workers, worker 0 in fragment 1, worker 1 in fragment 2, worker 2
\* in fragment 0: all are done, workers 1 and 2 hold the rows worker 0
\* selected for fragments 2 and 0, one of them with rows, and worker 0 holds
\* its own selection for fragment 1
C26_Witness ==
    /\ worker_num = 3
    /\ ArchiveTellsFragment
    /\ comm_spec.w2f = <<1, 2, 0>>
    /\ \A w \in Workers : pc[w] = "eng_returned"
    /\ record_batches_in[1] = <<Decoded(EncodedFor(0, 1, 2), 1)>>
    /\ record_batches_in[2] = <<Decoded(EncodedFor(0, 1, 0), 2)>>
    /\ record_batches_in[0]
         = <<SelectRows(record_batches[0][1], offset_lists[0][1][2])>>
    /\ record_batches_in[1][1].num_rows + record_batches_in[2][1].num_rows >= 1
    /\ record_batches_in[1] # record_batches_in[2]

=============================================================================
